---- MODULE Spec2Model ----
(***************************************************************************)
(* Model of the streaming conversation turn pipeline of the voice sales    *)
(* agent backend: the sentence chunkers of FastVoiceAgent and              *)
(* OptimizedVoiceAgent, the streaming turn of OptimizedVoiceAgent, and     *)
(* the SimpleInterruptManager of the websocket routes.                     *)
(*                                                                         *)
(* Text is a sequence of one-character strings, so that the regular        *)
(* expression splits, str.find, str.replace and str.strip of the source    *)
(* are computed character by character.                                    *)
(***************************************************************************)
EXTENDS Integers, Sequences, FiniteSets, TLC

(***************************************************************************)
(* Bounds of the model.                                                    *)
(***************************************************************************)
MaxTextLen == 7
MaxOps == 4
MaxDeltas == 3
MaxTurns == 2
MaxChunks == 2
MaxCalls == 2
MaxErrorCount == 3

(***************************************************************************)
(* Characters.  [.!?] of the patterns, and the whitespace class \s that    *)
(* str.strip() removes as well.                                            *)
(***************************************************************************)
Punct == {".", "!", "?"}
Whitespace == {" ", "\t", "\n", "\r", "\f"}

IsPunct(c) == c \in Punct
IsSpace(c) == c \in Whitespace

(* text[i:] and text[:i] with 1-based i: the suffix from i, the prefix before i *)
From(text, i) == SubSeq(text, i, Len(text))
Upto(text, i) == SubSeq(text, 1, i)

(* number of characters of class C (a set) starting at position i *)
RECURSIVE RunLen(_, _, _)
RunLen(text, i, C) ==
    IF i > Len(text) \/ i < 1 THEN 0
    ELSE IF text[i] \in C THEN 1 + RunLen(text, i + 1, C) ELSE 0

(* str.strip(): drop leading and trailing whitespace *)
RECURSIVE LStrip(_)
LStrip(text) ==
    IF text = << >> THEN << >>
    ELSE IF IsSpace(Head(text)) THEN LStrip(Tail(text)) ELSE text

RECURSIVE RStrip(_)
RStrip(text) ==
    IF text = << >> THEN << >>
    ELSE IF IsSpace(text[Len(text)]) THEN RStrip(Upto(text, Len(text) - 1)) ELSE text

Strip(text) == RStrip(LStrip(text))

(* truthiness of s.strip() *)
NonBlank(text) == Strip(text) # << >>

(* str.find(sub): 1-based position of the first occurrence, 0 when absent  *)
(* (Python returns -1 then); the empty string is found at the start.       *)
OccursAt(text, sub, p) ==
    /\ p >= 1
    /\ p + Len(sub) - 1 <= Len(text)
    /\ SubSeq(text, p, p + Len(sub) - 1) = sub

RECURSIVE FindFrom(_, _, _)
FindFrom(text, sub, p) ==
    IF p + Len(sub) - 1 > Len(text) THEN 0
    ELSE IF OccursAt(text, sub, p) THEN p ELSE FindFrom(text, sub, p + 1)

Find(text, sub) == FindFrom(text, sub, 1)

(* str.replace(sub, "", 1): remove the first occurrence of sub, if any *)
ReplaceFirst(text, sub) ==
    LET p == Find(text, sub)
    IN  IF p = 0 \/ sub = << >> THEN text
        ELSE Upto(text, p - 1) \o From(text, p + Len(sub))

(* length of the match of [.!?]+\s+ anchored at position i, 0 when none:   *)
(* the greedy punctuation run must be followed by at least one whitespace  *)
BoundaryLenAt(text, i) ==
    LET p == RunLen(text, i, Punct)
        w == RunLen(text, i + p, Whitespace)
    IN  IF p > 0 /\ w > 0 THEN p + w ELSE 0

(* re.split(r'([.!?]+\s+)', text): pieces and delimiters alternate,        *)
(* piece, delimiter, piece, ..., piece                                     *)
RECURSIVE SplitFrom(_, _, _)
SplitFrom(text, i, start) ==
    IF i > Len(text) THEN << SubSeq(text, start, Len(text)) >>
    ELSE LET m == BoundaryLenAt(text, i)
         IN  IF m > 0
             THEN << SubSeq(text, start, i - 1), SubSeq(text, i, i + m - 1) >>
                      \o SplitFrom(text, i + m, i + m)
             ELSE SplitFrom(text, i + 1, start)

SplitCapture(text) == SplitFrom(text, 1, 1)

(* re.split(r'[.!?]+[\s]+', text): the pieces only *)
SplitPlain(text) ==
    LET s == SplitCapture(text)
    IN  [k \in 1..((Len(s) + 1) \div 2) |-> s[2 * k - 1]]

(* re.search(r'[.!?]+', rest).group(): the first punctuation run of rest,  *)
(* << >> when rest has no punctuation (match is None)                      *)
RECURSIVE SearchPunct(_)
SearchPunct(rest) ==
    IF rest = << >> THEN << >>
    ELSE IF IsPunct(Head(rest)) THEN Upto(rest, RunLen(rest, 1, Punct))
    ELSE SearchPunct(Tail(rest))

(* the sequence s without the elements that fail the test *)
RECURSIVE FilterNonBlank(_)
FilterNonBlank(s) ==
    IF s = << >> THEN << >>
    ELSE IF NonBlank(Head(s)) THEN << Head(s) >> \o FilterNonBlank(Tail(s))
    ELSE FilterNonBlank(Tail(s))

RECURSIVE Concat(_)
Concat(s) == IF s = << >> THEN << >> ELSE Head(s) \o Concat(Tail(s))

(***************************************************************************)
(* FastVoiceAgent: _extract_complete_sentences and _get_sentence_remainder *)
(***************************************************************************)
(* the sentence built for the non-last piece part: the piece plus the      *)
(* first punctuation run after the FIRST occurrence of the piece in text   *)
(* a sentence built without adding the punctuation back *)
SentenceOfPart_NoPunct(text, part) == part

SentenceOfPart(text, part) ==
    part \o SearchPunct(From(text, Find(text, part) + Len(part)))

RECURSIVE CompleteFrom(_, _, _)
CompleteFrom(text, parts, i) ==
    IF i > Len(parts) - 1 THEN << >>
    ELSE (IF NonBlank(parts[i]) /\ SearchPunct(From(text, Find(text, parts[i]) + Len(parts[i]))) # << >>
          THEN << SentenceOfPart(text, parts[i]) >>
          ELSE << >>) \o CompleteFrom(text, parts, i + 1)

_extract_complete_sentences(text) ==
    LET parts == SplitPlain(text)
    IN  IF Len(parts) > 1 THEN CompleteFrom(text, parts, 1) ELSE << >>

RECURSIVE RemoveAll(_, _)
RemoveAll(text, sentences) ==
    IF sentences = << >> THEN text
    ELSE RemoveAll(Strip(ReplaceFirst(text, Head(sentences))), Tail(sentences))

_get_sentence_remainder(text) ==
    RemoveAll(text, _extract_complete_sentences(text))

(***************************************************************************)
(* OptimizedVoiceAgent._extract_sentences                                  *)
(***************************************************************************)
RECURSIVE Reconstruct(_, _)
Reconstruct(s, i) ==
    IF i > Len(s) THEN << >>
    ELSE IF i + 1 <= Len(s)
         THEN << s[i] \o s[i + 1] >> \o Reconstruct(s, i + 2)
         ELSE << s[i] >>

_extract_sentences(text) == FilterNonBlank(Reconstruct(SplitCapture(text), 1))

(***************************************************************************)
(* State.                                                                  *)
(*   active_sessions, interrupt_flags : the two dicts of                   *)
(*       SimpleInterruptManager, as functions on their key sets            *)
(*   im_call : the last manager call, its session and its outcome          *)
(*   im_log  : every manager call made so far, in order                    *)
(*   stream_text, stream_pos : a text streamed to the sentence loops and   *)
(*       the number of its characters delivered so far                     *)
(*   fast_buffer, fast_sent, fast_step : sentence_buffer of FastVoiceAgent,*)
(*       the sentences it yielded so far, and its last loop iteration      *)
(*   opt_buffer, opt_sent, opt_step : the same for OptimizedVoiceAgent     *)
(***************************************************************************)
(*   pc : the position of OptimizedVoiceAgent.process_message_streaming    *)
(*   context_messages : ConversationContext.messages of the session        *)
(*   message : the user message of the turn                                *)
(*   events : the events the generator has yielded in this turn            *)
(*   full_response, sentence_buffer, tool_calls, current_tool_call,        *)
(*   tool_results : the locals of the generator                            *)
(*   llm_calls : chat.completions.create calls made in this turn           *)
(*   failure : where the turn entered its except branch, if it did         *)
(*   deltas_used, turns : stream deltas consumed and turns started so far  *)
(***************************************************************************)
VARIABLES active_sessions, interrupt_flags, im_call, im_log,
          stream_text, stream_pos,
          fast_buffer, fast_sent, fast_step,
          opt_buffer, opt_sent, opt_step,
          pc, context_messages, message, events,
          full_response, sentence_buffer, tool_calls, current_tool_call,
          tool_results, llm_calls, failure, deltas_used, turns,
          sessions, vs_pc, vs_session_id, vs_context,
          vs_chunk_count, vs_sent, vs_connected, vs_agent, vs_tts,
          vs_ended, vs_turns, vs_received,
          _tools, rg_call, rg_log,
          tx_calls, tx_outcomes, tx_optimized, tx_fast,
          gr_state, gr_node, gr_path, gr_route,
          ac_deltas, ac_tool_calls, ac_current, ac_ended

imvars == << active_sessions, interrupt_flags, im_call, im_log >>
ckvars == << stream_text, stream_pos, fast_buffer, fast_sent, fast_step,
             opt_buffer, opt_sent, opt_step >>
egvars == << pc, context_messages, message, events,
             full_response, sentence_buffer, tool_calls, current_tool_call,
             tool_results, llm_calls, failure, deltas_used, turns >>
vsvars == << sessions, vs_pc, vs_session_id, vs_context,
             vs_chunk_count, vs_sent, vs_connected, vs_agent, vs_tts,
             vs_ended, vs_turns, vs_received >>
rgvars == << _tools, rg_call, rg_log >>
txvars == << tx_calls, tx_outcomes, tx_optimized, tx_fast >>
grvars == << gr_state, gr_node, gr_path, gr_route >>
acvars == << ac_deltas, ac_tool_calls, ac_current, ac_ended >>
vars == << imvars, ckvars, egvars, vsvars, rgvars, txvars, grvars, acvars >>

SessionIds == {"A", "B"}
NoSession == "-"

(* Python dict operations *)
EmptyDict == << >>
DictSet(d, k, v) == [x \in (DOMAIN d) \cup {k} |-> IF x = k THEN v ELSE d[x]]
DictPop(d, k) == [x \in (DOMAIN d) \ {k} |-> d[x]]
DictGet(d, k, default) == IF k \in DOMAIN d THEN d[k] ELSE default

(* outcome of a call: the value returned ("None" for a method without a    *)
(* return statement); raised tells whether the call raised instead         *)
Returned(v) == [raised |-> FALSE, value |-> v]

(***************************************************************************)
(* SimpleInterruptManager                                                  *)
(***************************************************************************)
Logged(op, sid, out) ==
    /\ Len(im_log) < MaxOps
    /\ im_call' = [op |-> op, sid |-> sid, out |-> out]
    /\ im_log' = Append(im_log, [op |-> op, sid |-> sid])
    /\ UNCHANGED << ckvars, egvars, vsvars, rgvars, txvars, grvars, acvars >>

(* a registration that keeps the flag of a session already registered *)
register_session_keep(session_id) ==
    /\ active_sessions' = DictSet(active_sessions, session_id, TRUE)
    /\ interrupt_flags' = DictSet(interrupt_flags, session_id,
                                  DictGet(interrupt_flags, session_id, FALSE))
    /\ Logged("register_session", session_id, Returned("None"))

register_session(session_id) ==
    /\ active_sessions' = DictSet(active_sessions, session_id, TRUE)
    /\ interrupt_flags' = DictSet(interrupt_flags, session_id, FALSE)
    /\ Logged("register_session", session_id, Returned("None"))

(* an interrupt that flags every registered session *)
interrupt_session_all(session_id) ==
    /\ IF session_id \in DOMAIN active_sessions
       THEN /\ interrupt_flags' = [x \in DOMAIN interrupt_flags |-> TRUE]
            /\ Logged("interrupt_session", session_id, Returned(TRUE))
       ELSE /\ interrupt_flags' = interrupt_flags
            /\ Logged("interrupt_session", session_id, Returned(FALSE))
    /\ UNCHANGED active_sessions

interrupt_session(session_id) ==
    /\ IF session_id \in DOMAIN active_sessions
       THEN /\ interrupt_flags' = DictSet(interrupt_flags, session_id, TRUE)
            /\ Logged("interrupt_session", session_id, Returned(TRUE))
       ELSE /\ interrupt_flags' = interrupt_flags
            /\ Logged("interrupt_session", session_id, Returned(FALSE))
    /\ UNCHANGED active_sessions

is_interrupted(session_id) ==
    /\ Logged("is_interrupted", session_id,
              Returned(DictGet(interrupt_flags, session_id, FALSE)))
    /\ UNCHANGED << active_sessions, interrupt_flags >>

(* a clear without the membership test *)
clear_interrupt_unguarded(session_id) ==
    /\ interrupt_flags' = DictSet(interrupt_flags, session_id, FALSE)
    /\ Logged("clear_interrupt", session_id, Returned("None"))
    /\ UNCHANGED active_sessions

clear_interrupt(session_id) ==
    /\ IF session_id \in DOMAIN interrupt_flags
       THEN interrupt_flags' = DictSet(interrupt_flags, session_id, FALSE)
       ELSE interrupt_flags' = interrupt_flags
    /\ Logged("clear_interrupt", session_id, Returned("None"))
    /\ UNCHANGED active_sessions

cleanup_session(session_id) ==
    /\ active_sessions' = DictPop(active_sessions, session_id)
    /\ interrupt_flags' = DictPop(interrupt_flags, session_id)
    /\ Logged("cleanup_session", session_id, Returned("None"))

(* the value is_interrupted would return now *)
IsInterruptedNow(s) == DictGet(interrupt_flags, s, FALSE)
IsRegisteredNow(s) == s \in DOMAIN active_sessions

IMNext ==
    \/ \E s \in SessionIds : register_session(s)
    \/ \E s \in SessionIds : interrupt_session(s)
    \/ \E s \in SessionIds : is_interrupted(s)
    \/ \E s \in SessionIds : clear_interrupt(s)
    \/ \E s \in SessionIds : cleanup_session(s)

(***************************************************************************)
(* The sentence loops of the two agents, one iteration per content delta.  *)
(***************************************************************************)
Alphabet == {"a", ".", "!", " "}

DrSmith == << "D", "r", ".", " ", "S", "m", "i", "t", "h", " ",
              "i", "s", " ", "h", "e", "r", "e", ".", " " >>

RECURSIVE TextsOfLen(_)
TextsOfLen(n) ==
    IF n = 0 THEN { << >> }
    ELSE { Append(t, c) : t \in TextsOfLen(n - 1), c \in Alphabet }

Texts == UNION { TextsOfLen(n) : n \in 1..MaxTextLen } \cup { DrSmith }

(* FastVoiceAgent.process_message_streaming, the body of `if chunk.content` *)
FastSentenceLoop(buffer, text_chunk) ==
    LET buf == buffer \o text_chunk
        sentences == _extract_complete_sentences(buf)
    IN  IF sentences # << >>
        THEN [buffer_in |-> buf, yielded |-> sentences,
              buffer |-> _get_sentence_remainder(buf)]
        ELSE [buffer_in |-> buf, yielded |-> << >>, buffer |-> buf]

(* OptimizedVoiceAgent.process_message_streaming, the body of              *)
(* `if delta.content`                                                      *)
OptSentenceLoop(buffer, text_chunk) ==
    LET buf == buffer \o text_chunk
        sentences == _extract_sentences(buf)
    IN  IF sentences # << >>
        THEN [buffer_in |-> buf,
              yielded |-> FilterNonBlank(Upto(sentences, Len(sentences) - 1)),
              buffer |-> sentences[Len(sentences)]]
        ELSE [buffer_in |-> buf, yielded |-> << >>, buffer |-> buf]

NoStep == [buffer_in |-> << >>, yielded |-> << >>, buffer |-> << >>]

(* the next n characters of the text arrive as one content delta, which    *)
(* each agent's loop handles                                               *)
ContentDelta(n) ==
    /\ stream_pos + n <= Len(stream_text)
    /\ stream_pos' = stream_pos + n
    /\ fast_step' = FastSentenceLoop(fast_buffer,
                        SubSeq(stream_text, stream_pos + 1, stream_pos + n))
    /\ fast_sent' = fast_sent \o fast_step'.yielded
    /\ fast_buffer' = fast_step'.buffer
    /\ opt_step' = OptSentenceLoop(opt_buffer,
                        SubSeq(stream_text, stream_pos + 1, stream_pos + n))
    /\ opt_sent' = opt_sent \o opt_step'.yielded
    /\ opt_buffer' = opt_step'.buffer
    /\ UNCHANGED << stream_text, imvars, egvars, vsvars, rgvars, txvars, grvars, acvars >>

ChunkNext == \E n \in 1..Len(stream_text) : ContentDelta(n)

(***************************************************************************)
(* OptimizedVoiceAgent.process_message_streaming                           *)
(***************************************************************************)
error_msg ==
    << "I", " ", "a", "p", "o", "l", "o", "g", "i", "z", "e", ",", " ",
       "b", "u", "t", " ", "I", " ", "e", "n", "c", "o", "u", "n",
       "t", "e", "r", "e", "d", " ", "a", "n", " ", "e", "r", "r",
       "o", "r", ".", " ", "P", "l", "e", "a", "s", "e", " ", "t",
       "r", "y", " ", "a", "g", "a", "i", "n", "." >>

UserMessages == { << "h", "i" >>, << "b", "y", "e" >> }

(* delta.content of a stream chunk; NoContent is None or "" *)
NoContent == << >>
ContentDeltas == { << "a" >>, << "." >>, << " " >>, << "a", ".", " " >> }

(* one element of delta.tool_calls: index, id (NoId is None), and the      *)
(* function's name (NoName is None) and arguments fragment                 *)
NoId == "None"
NoName == "None"
ToolCallDeltas ==
    { [index |-> 0, id |-> "call_1", name |-> "get_product_details", arguments |-> << >>],
      [index |-> 0, id |-> "call_2", name |-> "search_products", arguments |-> << "{", "}" >>],
      [index |-> 0, id |-> NoId, name |-> NoName, arguments |-> << "{" >>],
      [index |-> 0, id |-> NoId, name |-> NoName, arguments |-> << "}" >>],
      [index |-> 1, id |-> "call_3", name |-> "check_inventory", arguments |-> << >>],
      [index |-> 1, id |-> NoId, name |-> NoName, arguments |-> << "{" >>] }

(* chunk.choices[0].delta; NoDelta is a chunk without choices *)
NoDelta == [content |-> NoContent, tool_calls |-> << >>, empty |-> TRUE]
Deltas ==
    { NoDelta }
    \cup { [content |-> c, tool_calls |-> << >>, empty |-> FALSE] : c \in ContentDeltas }
    \cup { [content |-> NoContent, tool_calls |-> << t >>, empty |-> FALSE] : t \in ToolCallDeltas }
    \cup { [content |-> << "a" >>, tool_calls |-> << t >>, empty |-> FALSE] :
              t \in { d \in ToolCallDeltas : d.id = "call_1" } }

NoToolCall == [id |-> NoId, name |-> NoName, arguments |-> << >>, none |-> TRUE]

TextChunk(content) == [type |-> "text_chunk", content |-> content, trigger_tts |-> TRUE]
Completion(text) == [type |-> "completion", full_response |-> text]

Message(role, content) == [role |-> role, content |-> content]

NoFailure == [failed |-> FALSE, at |-> "-", events_before |-> 0]

(* the call of process_message_streaming up to the try: the user message   *)
(* is appended to the context the caller passed                            *)
StartTurn(msg) ==
    /\ pc \in {"idle", "done"}
    /\ turns < MaxTurns
    /\ turns' = turns + 1
    /\ message' = msg
    /\ context_messages' = Append(context_messages, Message("user", msg))
    /\ events' = << >>
    /\ full_response' = << >>
    /\ sentence_buffer' = << >>
    /\ tool_calls' = << >>
    /\ current_tool_call' = NoToolCall
    /\ tool_results' = << >>
    /\ llm_calls' = 0
    /\ failure' = NoFailure
    /\ pc' = "primary_call"
    /\ UNCHANGED deltas_used
    /\ UNCHANGED << imvars, ckvars, vsvars, rgvars, txvars, grvars, acvars >>

(* client.chat.completions.create(..., tools, stream=True) returns *)
PrimaryCreate ==
    /\ pc = "primary_call"
    /\ llm_calls' = llm_calls + 1
    /\ pc' = "primary"
    /\ UNCHANGED << context_messages, message, events, full_response,
                    sentence_buffer, tool_calls, current_tool_call,
                    tool_results, failure, deltas_used, turns >>
    /\ UNCHANGED << imvars, ckvars, vsvars, rgvars, txvars, grvars, acvars >>

(* the loop over delta.tool_calls of one chunk of the primary stream *)
RECURSIVE AccumulateToolCalls(_, _, _)
AccumulateToolCalls(tcds, calls, current) ==
    IF tcds = << >> THEN [tool_calls |-> calls, current_tool_call |-> current]
    ELSE LET d == Head(tcds)
         IN  IF d.index = 0 /\ d.id # NoId
             THEN AccumulateToolCalls(Tail(tcds),
                      IF ~current.none THEN Append(calls, current) ELSE calls,
                      [id |-> d.id, name |-> d.name,
                       arguments |-> d.arguments, none |-> FALSE])
             ELSE IF ~current.none
             THEN AccumulateToolCalls(Tail(tcds), calls,
                      [current EXCEPT
                         !.arguments = current.arguments \o d.arguments,
                         !.name = IF d.name # NoName THEN d.name ELSE current.name])
             ELSE AccumulateToolCalls(Tail(tcds), calls, current)

(* yield one text_chunk per sentence *)
RECURSIVE YieldChunks(_)
YieldChunks(sentences) ==
    IF sentences = << >> THEN << >>
    ELSE << TextChunk(Head(sentences)) >> \o YieldChunks(Tail(sentences))

(* one iteration of `async for chunk in response` *)
PrimaryDelta(delta) ==
    /\ pc = "primary"
    /\ deltas_used < MaxDeltas
    /\ deltas_used' = deltas_used + 1
    /\ IF delta.empty
       THEN UNCHANGED << tool_calls, current_tool_call, full_response,
                         sentence_buffer, events >>
       ELSE /\ LET acc == AccumulateToolCalls(delta.tool_calls, tool_calls, current_tool_call)
               IN  /\ tool_calls' = acc.tool_calls
                   /\ current_tool_call' = acc.current_tool_call
            /\ IF delta.content # NoContent
               THEN LET step == OptSentenceLoop(sentence_buffer, delta.content)
                    IN  /\ full_response' = full_response \o delta.content
                        /\ events' = events \o YieldChunks(step.yielded)
                        /\ sentence_buffer' = step.buffer
               ELSE UNCHANGED << full_response, sentence_buffer, events >>
    /\ UNCHANGED << pc, context_messages, message, tool_results, llm_calls,
                    failure, turns >>
    /\ UNCHANGED << imvars, ckvars, vsvars, rgvars, txvars, grvars, acvars >>

(* an end of the primary stream that always goes to the tool round *)
PrimaryEnd_AlwaysTools ==
    /\ pc = "primary"
    /\ tool_calls' = IF ~current_tool_call.none
                       THEN Append(tool_calls, current_tool_call)
                       ELSE tool_calls
    /\ pc' = "tools"
    /\ UNCHANGED << context_messages, message, events, full_response,
                    sentence_buffer, current_tool_call, tool_results,
                    llm_calls, failure, deltas_used, turns >>
    /\ UNCHANGED << imvars, ckvars, vsvars, rgvars, txvars, grvars, acvars >>

(* the primary stream ends: the pending tool call is added, and the turn   *)
(* goes to the tool round if any tool call was accumulated                 *)
PrimaryEnd ==
    /\ pc = "primary"
    /\ LET calls == IF ~current_tool_call.none
                    THEN Append(tool_calls, current_tool_call)
                    ELSE tool_calls
       IN  /\ tool_calls' = calls
           /\ pc' = IF calls # << >> THEN "tools" ELSE "flush"
    /\ UNCHANGED << context_messages, message, events, full_response,
                    sentence_buffer, current_tool_call, tool_results,
                    llm_calls, failure, deltas_used, turns >>
    /\ UNCHANGED << imvars, ckvars, vsvars, rgvars, txvars, grvars, acvars >>

(* json.loads over the characters the model draws arguments from: only     *)
(* "{}" is a JSON document; the empty string is not parsed at all          *)
JsonLoads(arguments) == arguments = << "{", "}" >>

AllowedTools == {"get_product_catalog", "get_product_details", "check_inventory"}
RegisteredTools == {"search_products", "get_product_details", "check_inventory"}

(* the result _execute_tools appends for one tool call; executes tells     *)
(* whether tool.execute returns ("ok") or raises ("raise"); executed and   *)
(* raised record whether tool.execute was called and whether it raised     *)
ToolResultOf(tool_call, executes) ==
    LET parsed == tool_call.arguments = << >> \/ JsonLoads(tool_call.arguments)
        found == tool_call.name \in RegisteredTools
        allowed == tool_call.name \in AllowedTools
    IN  [tool_call_id |-> tool_call.id,
         success |-> parsed /\ allowed /\ found /\ executes = "ok",
         executed |-> parsed /\ allowed /\ found,
         raised |-> parsed /\ allowed /\ found /\ executes = "raise"]

(* a loop that gives up on the calls after the first one that fails *)
_execute_tools_GiveUp(calls, outcomes) ==
    [i \in 1..Len(calls) |->
        IF \E j \in 1..(i - 1) : ~ ToolResultOf(calls[j], outcomes[j]).success
          THEN [tool_call_id |-> calls[i].id, success |-> FALSE,
                executed |-> FALSE, raised |-> FALSE]
          ELSE ToolResultOf(calls[i], outcomes[i])]

(* the loop of _execute_tools: one result per tool call, each in its own   *)
(* try statement                                                           *)
_execute_tools(calls, outcomes) ==
    [i \in 1..Len(calls) |-> ToolResultOf(calls[i], outcomes[i])]

(* `await self._execute_tools(tool_calls)` and the tool messages *)
ExecuteTools ==
    /\ pc = "tools"
    /\ \E outcomes \in [1..Len(tool_calls) -> {"ok", "raise"}] :
           tool_results' = _execute_tools(tool_calls, outcomes)
    /\ pc' = "secondary_call"
    /\ UNCHANGED << context_messages, message, events, full_response,
                    sentence_buffer, tool_calls, current_tool_call,
                    llm_calls, failure, deltas_used, turns >>
    /\ UNCHANGED << imvars, ckvars, vsvars, rgvars, txvars, grvars, acvars >>

(* the second client.chat.completions.create(..., stream=True) returns *)
SecondaryCreate ==
    /\ pc = "secondary_call"
    /\ llm_calls' = llm_calls + 1
    /\ pc' = "secondary"
    /\ UNCHANGED << context_messages, message, events, full_response,
                    sentence_buffer, tool_calls, current_tool_call,
                    tool_results, failure, deltas_used, turns >>
    /\ UNCHANGED << imvars, ckvars, vsvars, rgvars, txvars, grvars, acvars >>

(* one iteration of `async for chunk in final_response` *)
SecondaryDelta(delta) ==
    /\ pc = "secondary"
    /\ deltas_used < MaxDeltas
    /\ deltas_used' = deltas_used + 1
    /\ IF ~delta.empty /\ delta.content # NoContent
       THEN LET step == OptSentenceLoop(sentence_buffer, delta.content)
            IN  /\ full_response' = full_response \o delta.content
                /\ events' = events \o YieldChunks(step.yielded)
                /\ sentence_buffer' = step.buffer
       ELSE UNCHANGED << full_response, sentence_buffer, events >>
    /\ UNCHANGED << pc, context_messages, message, tool_calls,
                    current_tool_call, tool_results, llm_calls, failure, turns >>
    /\ UNCHANGED << imvars, ckvars, vsvars, rgvars, txvars, grvars, acvars >>

SecondaryEnd ==
    /\ pc = "secondary"
    /\ pc' = "flush"
    /\ UNCHANGED << context_messages, message, events, full_response,
                    sentence_buffer, tool_calls, current_tool_call,
                    tool_results, llm_calls, failure, deltas_used, turns >>
    /\ UNCHANGED << imvars, ckvars, vsvars, rgvars, txvars, grvars, acvars >>

(* a flush that never sends the remaining buffer *)
Flush_NoRemainder ==
    /\ pc = "flush"
    /\ events' = events \o << Completion(full_response) >>
    /\ context_messages' = Append(context_messages, Message("assistant", full_response))
    /\ pc' = "done"
    /\ UNCHANGED << message, full_response, sentence_buffer, tool_calls,
                    current_tool_call, tool_results, llm_calls, failure,
                    deltas_used, turns >>
    /\ UNCHANGED << imvars, ckvars, vsvars, rgvars, txvars, grvars, acvars >>

(* "Send any remaining text", "Add to context", "Send completion" *)
Flush ==
    /\ pc = "flush"
    /\ events' = events
                  \o (IF NonBlank(sentence_buffer)
                      THEN << TextChunk(sentence_buffer) >> ELSE << >>)
                  \o << Completion(full_response) >>
    /\ context_messages' = Append(context_messages, Message("assistant", full_response))
    /\ pc' = "done"
    /\ UNCHANGED << message, full_response, sentence_buffer, tool_calls,
                    current_tool_call, tool_results, llm_calls, failure,
                    deltas_used, turns >>
    /\ UNCHANGED << imvars, ckvars, vsvars, rgvars, txvars, grvars, acvars >>

(* an except branch that yields the apology without a completion *)
ProviderRaises_NoCompletion ==
    /\ pc \in {"primary_call", "primary", "secondary_call", "secondary"}
    /\ failure' = [failed |-> TRUE, at |-> pc, events_before |-> Len(events)]
    /\ events' = events \o << TextChunk(error_msg) >>
    /\ pc' = "done"
    /\ UNCHANGED << context_messages, message, full_response, sentence_buffer,
                    tool_calls, current_tool_call, tool_results, llm_calls,
                    deltas_used, turns >>
    /\ UNCHANGED << imvars, ckvars, vsvars, rgvars, txvars, grvars, acvars >>

(* an except branch whose completion carries the text streamed so far *)
ProviderRaises_Partial ==
    /\ pc \in {"primary_call", "primary", "secondary_call", "secondary"}
    /\ failure' = [failed |-> TRUE, at |-> pc, events_before |-> Len(events)]
    /\ events' = events \o << TextChunk(error_msg), Completion(full_response) >>
    /\ pc' = "done"
    /\ UNCHANGED << context_messages, message, full_response, sentence_buffer,
                    tool_calls, current_tool_call, tool_results, llm_calls,
                    deltas_used, turns >>
    /\ UNCHANGED << imvars, ckvars, vsvars, rgvars, txvars, grvars, acvars >>

(* the provider raises, in create() or while a stream is consumed: the     *)
(* `except Exception` branch yields the apology and the completion         *)
ProviderRaises ==
    /\ pc \in {"primary_call", "primary", "secondary_call", "secondary"}
    /\ failure' = [failed |-> TRUE, at |-> pc, events_before |-> Len(events)]
    /\ events' = events \o << TextChunk(error_msg), Completion(error_msg) >>
    /\ pc' = "done"
    /\ UNCHANGED << context_messages, message, full_response, sentence_buffer,
                    tool_calls, current_tool_call, tool_results, llm_calls,
                    deltas_used, turns >>
    /\ UNCHANGED << imvars, ckvars, vsvars, rgvars, txvars, grvars, acvars >>

EngineNext ==
    \/ \E msg \in UserMessages : StartTurn(msg)
    \/ PrimaryCreate
    \/ \E delta \in Deltas : PrimaryDelta(delta)
    \/ PrimaryEnd
    \/ ExecuteTools
    \/ SecondaryCreate
    \/ \E delta \in Deltas : SecondaryDelta(delta)
    \/ SecondaryEnd
    \/ Flush
    \/ ProviderRaises

(***************************************************************************)
(* The tool-call deltas of one primary stream, as the provider sends them: *)
(* the tool calls of a response are numbered 0, 1, ... by index; the first *)
(* delta of an index carries the call's id and name, the later ones carry  *)
(* fragments of its arguments, and the deltas of index i + 1 come after    *)
(* those of index i.                                                       *)
(*   ac_deltas : the tool-call deltas of the stream so far                 *)
(*   ac_tool_calls, ac_current : tool_calls and current_tool_call of       *)
(*       process_message_streaming                                         *)
(*   ac_ended : whether the stream has ended                               *)
(***************************************************************************)
StreamIndexes == {0, 1}
OpeningDeltas ==
    { [index |-> i, id |-> IF i = 0 THEN "call_1" ELSE "call_2",
       name |-> n, arguments |-> << >>] :
          i \in StreamIndexes, n \in {"get_product_details", "check_inventory"} }
FragmentDeltas ==
    { [index |-> i, id |-> NoId, name |-> NoName, arguments |-> a] :
          i \in StreamIndexes, a \in { << "{" >>, << "}" >>, << "{", "}" >> } }

IndexesSeen(deltas) == { deltas[k].index : k \in 1..Len(deltas) }

(* the delta can come next in the stream *)
WellFormedNext(d) ==
    IF d.id # NoId
      THEN d.index = Cardinality(IndexesSeen(ac_deltas))
      ELSE ac_deltas # << >> /\ d.index = ac_deltas[Len(ac_deltas)].index

(* a chunk of the primary stream with one tool-call delta *)
ToolCallDelta(d) ==
    /\ ~ ac_ended
    /\ Len(ac_deltas) < MaxDeltas
    /\ WellFormedNext(d)
    /\ ac_deltas' = Append(ac_deltas, d)
    /\ LET acc == AccumulateToolCalls(<< d >>, ac_tool_calls, ac_current)
       IN  /\ ac_tool_calls' = acc.tool_calls
           /\ ac_current' = acc.current_tool_call
    /\ UNCHANGED ac_ended
    /\ UNCHANGED << imvars, ckvars, egvars, vsvars, rgvars, txvars, grvars >>

(* the stream ends: "Add final tool call if exists" *)
StreamEnds ==
    /\ ~ ac_ended
    /\ ac_ended' = TRUE
    /\ ac_tool_calls' = IF ~ ac_current.none THEN Append(ac_tool_calls, ac_current)
                        ELSE ac_tool_calls
    /\ UNCHANGED << ac_deltas, ac_current >>
    /\ UNCHANGED << imvars, ckvars, egvars, vsvars, rgvars, txvars, grvars >>

AccumulateNext ==
    \/ \E d \in OpeningDeltas \cup FragmentDeltas : ToolCallDelta(d)
    \/ StreamEnds

(***************************************************************************)
(* _execute_tools of the two agents, run on the same tool calls.           *)
(*   tx_calls : the tool calls of a turn, each with its id, name and       *)
(*       arguments                                                         *)
(*   tx_outcomes : for each call, whether tool.execute would return or     *)
(*       raise                                                             *)
(*   tx_optimized, tx_fast : whether OptimizedVoiceAgent._execute_tools    *)
(*       and FastVoiceAgent._execute_tools have run, and what they         *)
(*       returned                                                          *)
(***************************************************************************)
NotRun == [ran |-> FALSE, results |-> << >>]
Ran(results) == [ran |-> TRUE, results |-> results]

(* tool names: allowed and registered, registered only, allowed only,      *)
(* neither                                                                 *)
CalledNames == {"get_product_details", "search_products", "get_product_catalog", "nope"}
CalledArguments == { << >>, << "{", "}" >>, << "{" >> }

(* the i-th tool call of a turn *)
CallsAt(i) ==
    { [id |-> IF i = 1 THEN "call_1" ELSE IF i = 2 THEN "call_2" ELSE "call_3",
       name |-> n, arguments |-> a, none |-> FALSE] :
          n \in CalledNames, a \in CalledArguments }

CallLists ==
    UNION { { calls \in [1..n -> UNION { CallsAt(i) : i \in 1..n }] :
                \A i \in 1..n : calls[i] \in CallsAt(i) } : n \in 1..MaxCalls }

(* FastVoiceAgent.tool_map: the tools of the registry, by name *)
tool_map == RegisteredTools

(* the results FastVoiceAgent._execute_tools appends from call i on: a     *)
(* call whose name is not in tool_map gets no result                       *)
RECURSIVE FastResultsFrom(_, _, _)
FastResultsFrom(calls, outcomes, i) ==
    IF i > Len(calls) THEN << >>
    ELSE (IF calls[i].name \in tool_map
            THEN << [tool_call_id |-> calls[i].id,
                     success |-> outcomes[i] = "ok",
                     executed |-> TRUE,
                     raised |-> outcomes[i] = "raise"] >>
            ELSE << >>)
         \o FastResultsFrom(calls, outcomes, i + 1)

fast_execute_tools(calls, outcomes) == FastResultsFrom(calls, outcomes, 1)

RunOptimized ==
    /\ ~ tx_optimized.ran
    /\ tx_optimized' = Ran(_execute_tools(tx_calls, tx_outcomes))
    /\ UNCHANGED << tx_calls, tx_outcomes, tx_fast >>
    /\ UNCHANGED << imvars, ckvars, egvars, vsvars, rgvars, grvars, acvars >>

RunFast ==
    /\ ~ tx_fast.ran
    /\ tx_fast' = Ran(fast_execute_tools(tx_calls, tx_outcomes))
    /\ UNCHANGED << tx_calls, tx_outcomes, tx_optimized >>
    /\ UNCHANGED << imvars, ckvars, egvars, vsvars, rgvars, grvars, acvars >>

ToolsNext == RunOptimized \/ RunFast

(***************************************************************************)
(* ToolRegistry, the singleton of registry.py.                             *)
(*   _tools : the dict name -> tool                                        *)
(*   rg_call : the last call, its arguments and its outcome                *)
(*   rg_log : every call made so far, in order                             *)
(***************************************************************************)
ToolNames == {"t1", "t2"}

(* tool objects: two instances for each name *)
ToolObjects == [name : ToolNames, instance : {1, 2}]
NoTool == [name |-> "-", instance |-> 0]

Raised(e) == [raised |-> TRUE, value |-> e]

RegistryLogged(op, name, tool, override, out) ==
    /\ Len(rg_log) < MaxOps
    /\ rg_call' = [op |-> op, name |-> name, out |-> out]
    /\ rg_log' = Append(rg_log, [op |-> op, name |-> name, tool |-> tool,
                                 override |-> override])
    /\ UNCHANGED << imvars, ckvars, egvars, vsvars, txvars, grvars, acvars >>

(* a registration that always replaces *)
register_replace(tool, override) ==
    /\ _tools' = DictSet(_tools, tool.name, tool)
    /\ RegistryLogged("register", tool.name, tool, override, Returned("None"))

register(tool, override) ==
    /\ _tools' = IF tool.name \in DOMAIN _tools /\ ~ override
                   THEN _tools
                   ELSE DictSet(_tools, tool.name, tool)
    /\ RegistryLogged("register", tool.name, tool, override, Returned("None"))

unregister(tool_name) ==
    /\ _tools' = IF tool_name \in DOMAIN _tools THEN DictPop(_tools, tool_name)
                 ELSE _tools
    /\ RegistryLogged("unregister", tool_name, NoTool, FALSE, Returned("None"))

get(tool_name) ==
    /\ UNCHANGED _tools
    /\ RegistryLogged("get", tool_name, NoTool, FALSE,
                      IF tool_name \notin DOMAIN _tools
                        THEN Raised("ToolNotFoundError")
                        ELSE [raised |-> FALSE, value |-> "tool",
                              tool |-> _tools[tool_name]])

clear ==
    /\ _tools' = EmptyDict
    /\ RegistryLogged("clear", "-", NoTool, FALSE, Returned("None"))

RegistryNext ==
    \/ \E tool \in ToolObjects, override \in BOOLEAN : register(tool, override)
    \/ \E tool_name \in ToolNames : unregister(tool_name)
    \/ \E tool_name \in ToolNames : get(tool_name)
    \/ clear

(***************************************************************************)
(* VoiceAgent, the LangGraph agent of graph.py.                            *)
(*   gr_state : the AgentState of a run, by its current_intent and its     *)
(*       error_count                                                       *)
(*   gr_node : the node the graph runs next, "END" when the run is over    *)
(*   gr_path : the nodes the run has executed, in order                    *)
(*   gr_route : the last value route_after_intent returned                 *)
(***************************************************************************)
Intents == {"product_search", "product_details", "add_to_cart",
            "remove_from_cart", "view_cart", "checkout", "sizing_help",
            "recommendation", "policy_inquiry", "general_help", "unknown"}

(* the intents detect_intent can set: the values of intent_map, and        *)
(* UNKNOWN for every other answer of the LLM                               *)
DetectedIntents == {"product_search", "product_details", "general_help", "unknown"}

NoRoute == "-"

(* a routing that asks for clarification however many errors there were *)
route_after_intent_NoBudget(state) ==
    IF state.current_intent = "unknown"
      THEN "needs_clarification"
    ELSE IF state.current_intent \in {"product_search", "product_details"}
      THEN "select_tools"
    ELSE "generate_response"

route_after_intent(state) ==
    IF state.current_intent = "unknown" /\ state.error_count < 3
      THEN "needs_clarification"
    ELSE IF state.current_intent \in {"product_search", "product_details"}
      THEN "select_tools"
    ELSE "generate_response"

(* the mapping of add_conditional_edges *)
ConditionalEdge(route) ==
    CASE route = "needs_clarification" -> "clarify"
      [] route = "select_tools" -> "select_tools"
      [] route = "generate_response" -> "generate_response"

(* a node that has run is added to the path *)
NodeRan(name) ==
    /\ gr_path' = Append(gr_path, name)
    /\ UNCHANGED << imvars, ckvars, egvars, vsvars, rgvars, txvars, acvars >>

(* route_after_intent called on a state, as the unit test calls it *)
RouteDirect ==
    /\ gr_node = "detect_intent"
    /\ gr_route' = route_after_intent(gr_state)
    /\ UNCHANGED << gr_state, gr_node, gr_path >>
    /\ UNCHANGED << imvars, ckvars, egvars, vsvars, rgvars, txvars, acvars >>

(* detect_intent sets the intent, or UNKNOWN and one more error when the   *)
(* LLM call raises; the conditional edge then picks the next node          *)
detect_intent(intent, raised) ==
    /\ gr_node = "detect_intent"
    /\ gr_state' = IF raised
                     THEN [current_intent |-> "unknown",
                           error_count |-> gr_state.error_count + 1]
                     ELSE [gr_state EXCEPT !.current_intent = intent]
    /\ gr_route' = route_after_intent(gr_state')
    /\ gr_node' = ConditionalEdge(gr_route')
    /\ NodeRan("detect_intent")

select_tools(raised) ==
    /\ gr_node = "select_tools"
    /\ gr_state' = IF raised THEN [gr_state EXCEPT !.error_count = @ + 1]
                   ELSE gr_state
    /\ gr_node' = "execute_tools"
    /\ UNCHANGED gr_route
    /\ NodeRan("select_tools")

execute_tools(raised) ==
    /\ gr_node = "execute_tools"
    /\ gr_state' = IF raised THEN [gr_state EXCEPT !.error_count = @ + 1]
                   ELSE gr_state
    /\ gr_node' = "generate_response"
    /\ UNCHANGED gr_route
    /\ NodeRan("execute_tools")

generate_response(raised) ==
    /\ gr_node = "generate_response"
    /\ gr_state' = IF raised THEN [gr_state EXCEPT !.error_count = @ + 1]
                   ELSE gr_state
    /\ gr_node' = "END"
    /\ UNCHANGED gr_route
    /\ NodeRan("generate_response")

(* clarify: its except branch only appends the fallback message *)
clarify ==
    /\ gr_node = "clarify"
    /\ gr_node' = "END"
    /\ UNCHANGED << gr_state, gr_route >>
    /\ NodeRan("clarify")

(* handle_error has no incoming edge and never runs *)
GraphNext ==
    \/ RouteDirect
    \/ \E intent \in DetectedIntents, raised \in BOOLEAN : detect_intent(intent, raised)
    \/ \E raised \in BOOLEAN : select_tools(raised)
    \/ \E raised \in BOOLEAN : execute_tools(raised)
    \/ \E raised \in BOOLEAN : generate_response(raised)
    \/ clarify

(***************************************************************************)
(* voice_session, the websocket handler of routes.py.  One handler runs    *)
(* per connection; all of them share the module-level `sessions` table     *)
(* and `interrupt_manager`.  A step of the model is the code between two   *)
(* awaits of one handler.                                                  *)
(*   sessions : the table session id -> ConversationContext, each          *)
(*       context by its messages                                           *)
(*   vs_pc : the handler's position: "closed" (no connection), "accepted", *)
(*       "ready" (the receive of the dispatch loop), "turn" (waiting for   *)
(*       the agent's next event), "tts" (waiting for generate_tts),        *)
(*       "returned"                                                        *)
(*   vs_session_id, vs_context, vs_chunk_count : the handler's locals,     *)
(*       the context by the key under which the table holds it             *)
(*   vs_sent : the messages the handler has sent since it received its     *)
(*       latest inbound message                                            *)
(*   vs_connected : whether the client is still there; a client that goes  *)
(*       away while the handler waits in receive_json ends the handler at  *)
(*       once, one that goes away during a turn is noticed at the next     *)
(*       send                                                              *)
(*   vs_agent : the events process_message_streaming yielded in the turn,  *)
(*       and whether it entered its except branch                          *)
(*   vs_tts : the outcomes of the turn's generate_tts calls, in order      *)
(*   vs_ended : the way the handler ended                                  *)
(*   vs_turns : text.input messages received so far, on all connections    *)
(*   vs_received : the inbound message the handler received last           *)
(***************************************************************************)
Conns == {1, 2}

(* the connections of a client that connects again after each ending *)
Serial == {1}
NoContext == "None"
NoAgent == [events |-> << >>, failed |-> FALSE]

(* the outcomes of `await generate_tts(...)`: a response with success      *)
(* true, a response with success false, an exception                       *)
TtsOutcomes == {"ok", "failed", "raised"}

(* the j-th sentence of a response, the text of the k-th text.input *)
Sentence(j) == [k \in 1..j |-> "a"] \o << "." >>
UserText(k) == [j \in 1..k |-> "u"]

(* inbound messages, by their type and, for user.speaking, the             *)
(* interrupted_tts of their data; NoMessage before the first receive       *)
Inbound(type, interrupted_tts) == [type |-> type, interrupted_tts |-> interrupted_tts]
NoMessage == Inbound("None", FALSE)

(* outbound messages *)
ErrorMessage(m) == [type |-> "error", message |-> m]
SessionReady(s) == [type |-> "session.ready", session_id |-> s]
TextChunkMessage(sentence, id) ==
    [type |-> "text.chunk", text |-> sentence, chunk_id |-> id]
AudioChunkMessage(sentence, id) ==
    [type |-> "audio.chunk", chunk_id |-> id, text |-> sentence]
AgentResponse(text, n) ==
    [type |-> "agent.response", text |-> text, chunks_sent |-> n]
SpeechInterrupted(success) ==
    [type |-> "speech.interrupted", success |-> success]
SpeechInterruptedEcho(success, interrupted_tts) ==
    [type |-> "speech.interrupted", success |-> success,
     interrupted_tts |-> interrupted_tts]
TtsAcknowledged == [type |-> "tts.acknowledged"]
TtsGenerated(success) == [type |-> "tts.generated", success |-> success]

vs_frame == << im_call, im_log, ckvars, egvars, rgvars, txvars, grvars, acvars >>

ContentsOf(evs) == [i \in 1..Len(evs) |-> evs[i].content]

(* chunk_count and the record of the turn are set anew by every            *)
(* text.input; outside a turn nothing reads them                           *)
NoTurn(c) ==
    /\ vs_chunk_count' = [vs_chunk_count EXCEPT ![c] = 0]
    /\ vs_agent' = [vs_agent EXCEPT ![c] = NoAgent]
    /\ vs_tts' = [vs_tts EXCEPT ![c] = << >>]

(* an ending of the handler that leaves the session in the manager *)
HandlerEnds_NoCleanup(c, how, sent) ==
    /\ vs_sent' = [vs_sent EXCEPT ![c] = sent]
    /\ UNCHANGED << active_sessions, interrupt_flags >>
    /\ vs_pc' = [vs_pc EXCEPT ![c] = "returned"]
    /\ vs_ended' = [vs_ended EXCEPT ![c] = how]
    /\ vs_connected' = [vs_connected EXCEPT ![c] = FALSE]
    /\ vs_context' = [vs_context EXCEPT ![c] = NoContext]
    /\ NoTurn(c)
    /\ UNCHANGED << vs_session_id, vs_turns, vs_frame >>

(* the handler leaves its try statement, having sent `sent` for the        *)
(* message it was handling: the finally clause runs                        *)
(* interrupt_manager.cleanup_session when session_id is set, and the       *)
(* handler returns; the table of sessions is left alone                    *)
HandlerEnds(c, how, sent) ==
    /\ vs_sent' = [vs_sent EXCEPT ![c] = sent]
    /\ IF vs_session_id[c] # NoSession
         THEN /\ active_sessions' = DictPop(active_sessions, vs_session_id[c])
              /\ interrupt_flags' = DictPop(interrupt_flags, vs_session_id[c])
         ELSE UNCHANGED << active_sessions, interrupt_flags >>
    /\ vs_pc' = [vs_pc EXCEPT ![c] = "returned"]
    /\ vs_ended' = [vs_ended EXCEPT ![c] = how]
    /\ vs_connected' = [vs_connected EXCEPT ![c] = FALSE]
    /\ vs_context' = [vs_context EXCEPT ![c] = NoContext]
    /\ NoTurn(c)
    /\ UNCHANGED << vs_session_id, vs_turns, vs_frame >>

(* `except Exception`: the error message is sent after `sent`, and a       *)
(* failure of that send is swallowed                                       *)
WithError(c, sent, m) ==
    IF vs_connected[c] THEN Append(sent, ErrorMessage(m)) ELSE sent

(* the handler has received a message, sends msgs and goes on *)
Replies(c, msgs, next_pc) ==
    /\ vs_sent' = [vs_sent EXCEPT ![c] = msgs]
    /\ vs_pc' = [vs_pc EXCEPT ![c] = next_pc]
    /\ NoTurn(c)
    /\ UNCHANGED << vs_ended, vs_connected >>

(* the handler sends msgs while it handles a message, and goes on *)
Sends(c, msgs, next_pc) ==
    /\ vs_sent' = [vs_sent EXCEPT ![c] = @ \o msgs]
    /\ vs_pc' = [vs_pc EXCEPT ![c] = next_pc]
    /\ UNCHANGED << vs_ended, vs_connected >>

(* the handler is at the receive of its dispatch loop and a message is     *)
(* there                                                                   *)
InLoop(c) == vs_pc[c] = "ready" /\ vs_connected[c]

(* a client connects: websocket.accept() and the three locals set to None; *)
(* the connection slots are taken in order                                 *)
Accept(c) ==
    /\ vs_received' = [vs_received EXCEPT ![c] = NoMessage]
    /\ vs_pc[c] \in {"closed", "returned"}
    /\ \A d \in Conns : d < c => vs_pc[d] # "closed"
    /\ vs_pc' = [vs_pc EXCEPT ![c] = "accepted"]
    /\ vs_session_id' = [vs_session_id EXCEPT ![c] = NoSession]
    /\ vs_context' = [vs_context EXCEPT ![c] = NoContext]
    /\ vs_sent' = [vs_sent EXCEPT ![c] = << >>]
    /\ vs_connected' = [vs_connected EXCEPT ![c] = TRUE]
    /\ vs_ended' = [vs_ended EXCEPT ![c] = "-"]
    /\ NoTurn(c)
    /\ UNCHANGED << sessions, vs_turns,
                    active_sessions, interrupt_flags, vs_frame >>

(* the client goes away during a turn *)
ClientDisconnect(c) ==
    /\ UNCHANGED vs_received
    /\ vs_pc[c] \in {"turn", "tts"}
    /\ vs_connected[c]
    /\ vs_connected' = [vs_connected EXCEPT ![c] = FALSE]
    /\ UNCHANGED << sessions, vs_pc, vs_session_id, vs_context,
                    vs_chunk_count, vs_sent, vs_agent, vs_tts, vs_ended,
                    vs_turns, active_sessions, interrupt_flags, vs_frame >>

(* receive_json() raises WebSocketDisconnect *)
ReceiveDisconnect(c) ==
    /\ UNCHANGED vs_received
    /\ vs_pc[c] \in {"accepted", "ready"}
    /\ HandlerEnds(c, "disconnect", << >>)
    /\ UNCHANGED sessions

(* a handshake that gives up on a wrong first message without a word *)
NotSessionStart_Silent(c) ==
    /\ vs_received' = [vs_received EXCEPT ![c] = Inbound("malformed", FALSE)]
    /\ vs_pc[c] = "accepted"
    /\ vs_connected[c]
    /\ HandlerEnds(c, "return", << >>)
    /\ UNCHANGED sessions

(* the first message is not session.start: one error, then `return` *)
NotSessionStart(c) ==
    /\ vs_received' = [vs_received EXCEPT ![c] = Inbound("malformed", FALSE)]
    /\ vs_pc[c] = "accepted"
    /\ vs_connected[c]
    /\ HandlerEnds(c, "return", << ErrorMessage("Expected session.start message") >>)
    /\ UNCHANGED sessions

(* a handshake that makes a fresh context even for a known session id *)
SessionStart_Fresh(c, s) ==
    /\ vs_received' = [vs_received EXCEPT ![c] = Inbound("session.start", FALSE)]
    /\ vs_pc[c] = "accepted"
    /\ vs_connected[c]
    /\ vs_session_id' = [vs_session_id EXCEPT ![c] = s]
    /\ sessions' = DictSet(sessions, s, << >>)
    /\ vs_context' = [vs_context EXCEPT ![c] = s]
    /\ active_sessions' = DictSet(active_sessions, s, TRUE)
    /\ interrupt_flags' = DictSet(interrupt_flags, s, FALSE)
    /\ Replies(c, << SessionReady(s) >>, "ready")
    /\ UNCHANGED << vs_turns, vs_frame >>

(* session.start: the context of the session id is looked up or created,   *)
(* the session is registered with the interrupt manager, session.ready is  *)
(* sent                                                                    *)
SessionStart(c, s) ==
    /\ vs_received' = [vs_received EXCEPT ![c] = Inbound("session.start", FALSE)]
    /\ vs_pc[c] = "accepted"
    /\ vs_connected[c]
    /\ vs_session_id' = [vs_session_id EXCEPT ![c] = s]
    /\ sessions' = IF s \in DOMAIN sessions THEN sessions
                   ELSE DictSet(sessions, s, << >>)
    /\ vs_context' = [vs_context EXCEPT ![c] = s]
    /\ active_sessions' = DictSet(active_sessions, s, TRUE)
    /\ interrupt_flags' = DictSet(interrupt_flags, s, FALSE)
    /\ Replies(c, << SessionReady(s) >>, "ready")
    /\ UNCHANGED << vs_turns, vs_frame >>

(* handling the message raises (a message without its "data", a message    *)
(* that is no JSON object): the `except Exception` clause sends an error   *)
MessageRaises(c) ==
    /\ vs_received' = [vs_received EXCEPT ![c] = Inbound("malformed", FALSE)]
    /\ vs_pc[c] \in {"accepted", "ready"}
    /\ vs_connected[c]
    /\ HandlerEnds(c, "exception", WithError(c, << >>, "exception"))
    /\ UNCHANGED sessions

(* text.input: the generator starts and appends the user message to the    *)
(* context (optimized_agent.py line 89) before its first await             *)
TextInput(c, text) ==
    /\ vs_received' = [vs_received EXCEPT ![c] = Inbound("text.input", FALSE)]
    /\ InLoop(c)
    /\ vs_turns < MaxTurns
    /\ vs_turns' = vs_turns + 1
    /\ sessions' = [sessions EXCEPT ![vs_context[c]] = Append(@, Message("user", text))]
    /\ Replies(c, << >>, "turn")
    /\ UNCHANGED << vs_session_id, vs_context,
                    active_sessions, interrupt_flags, vs_frame >>

(* the body of `if chunk["type"] == "text_chunk" and chunk.get("trigger_tts")` *)
(* up to the await of generate_tts: chunk_count is incremented and         *)
(* text.chunk is sent; when that send raises, the handler ends             *)
RouteTextChunk(c, chunk) ==
    IF vs_connected[c]
      THEN /\ vs_agent' = [vs_agent EXCEPT ![c].events = Append(@, chunk),
                                           ![c].failed = (chunk.content = error_msg)]
           /\ vs_chunk_count' = [vs_chunk_count EXCEPT ![c] = @ + 1]
           /\ Sends(c, << TextChunkMessage(chunk.content, vs_chunk_count[c] + 1) >>, "tts")
           /\ UNCHANGED << sessions, vs_session_id, vs_context, vs_tts,
                           vs_turns, active_sessions, interrupt_flags, vs_frame >>
      ELSE /\ HandlerEnds(c, "exception", vs_sent[c])
           /\ UNCHANGED sessions

(* an agent that stops generating once its session is interrupted *)
AgentYieldsChunk_UnlessInterrupted(c) ==
    /\ UNCHANGED vs_received
    /\ vs_pc[c] = "turn"
    /\ ~ vs_agent[c].failed
    /\ ~ DictGet(interrupt_flags, vs_session_id[c], FALSE)
    /\ Len(vs_agent[c].events) < MaxChunks
    /\ RouteTextChunk(c, TextChunk(Sentence(Len(vs_agent[c].events) + 1)))

(* the agent yields the next sentence of its response as a text_chunk *)
AgentYieldsChunk(c) ==
    /\ UNCHANGED vs_received
    /\ vs_pc[c] = "turn"
    /\ ~ vs_agent[c].failed
    /\ Len(vs_agent[c].events) < MaxChunks
    /\ RouteTextChunk(c, TextChunk(Sentence(Len(vs_agent[c].events) + 1)))

(* the agent's `except Exception` branch yields the apology as a text_chunk *)
AgentRaises(c) ==
    /\ UNCHANGED vs_received
    /\ vs_pc[c] = "turn"
    /\ ~ vs_agent[c].failed
    /\ Len(vs_agent[c].events) < MaxChunks
    /\ RouteTextChunk(c, TextChunk(error_msg))

(* the text_chunk the handler is synthesizing *)
CurrentChunk(c) == vs_agent[c].events[Len(vs_agent[c].events)]

(* a synthesis step whose failure ends the handler *)
GenerateTts_Abort(c, outcome) ==
    /\ UNCHANGED vs_received
    /\ vs_pc[c] = "tts"
    /\ IF outcome = "ok"
         THEN /\ vs_tts' = [vs_tts EXCEPT ![c] = Append(@, TRUE)]
              /\ Sends(c, IF vs_connected[c]
                            THEN << AudioChunkMessage(CurrentChunk(c).content, vs_chunk_count[c]) >>
                            ELSE << >>, "turn")
              /\ UNCHANGED << sessions, vs_session_id, vs_context,
                              vs_chunk_count, vs_agent, vs_turns,
                              active_sessions, interrupt_flags, vs_frame >>
         ELSE /\ HandlerEnds(c, "exception", WithError(c, vs_sent[c], "tts"))
              /\ UNCHANGED sessions

(* `await generate_tts(text=sentence, format="wav")` inside its try: on    *)
(* success audio.chunk is sent; a response with success false, an          *)
(* exception of generate_tts and a failure of the send are only logged     *)
GenerateTts(c, outcome) ==
    /\ UNCHANGED vs_received
    /\ vs_pc[c] = "tts"
    /\ vs_tts' = [vs_tts EXCEPT ![c] = Append(@, outcome = "ok")]
    /\ Sends(c, IF outcome = "ok" /\ vs_connected[c]
                  THEN << AudioChunkMessage(CurrentChunk(c).content, vs_chunk_count[c]) >>
                  ELSE << >>,
             "turn")
    /\ UNCHANGED << sessions, vs_session_id, vs_context, vs_chunk_count,
                    vs_agent, vs_turns, active_sessions, interrupt_flags, vs_frame >>

(* a chunk count that leaves out the chunks without audio *)
ChunksSent_AudioOnly(c) == Len(SelectSeq(vs_tts[c], LAMBDA ok : ok))

(* the chunk count agent.response reports *)
ChunksSent(c) == vs_chunk_count[c]

(* the agent appends the assistant message (not in its except branch) and  *)
(* yields the completion; the handler sends agent.response, the generator  *)
(* is exhausted and the handler is back at the receive of its loop; when   *)
(* the send raises, the handler ends                                       *)
AgentCompletes(c) ==
    /\ UNCHANGED vs_received
    /\ vs_pc[c] = "turn"
    /\ LET text == IF vs_agent[c].failed THEN error_msg
                   ELSE Concat(ContentsOf(vs_agent[c].events)) IN
         /\ sessions' = IF vs_agent[c].failed THEN sessions
                        ELSE [sessions EXCEPT ![vs_context[c]] =
                                 Append(@, Message("assistant", text))]
         /\ IF vs_connected[c]
              THEN /\ vs_agent' = [vs_agent EXCEPT ![c].events = Append(@, Completion(text))]
                   /\ Sends(c, << AgentResponse(text, ChunksSent(c)) >>, "ready")
                   /\ UNCHANGED << vs_session_id, vs_context, vs_chunk_count,
                                   vs_tts, vs_turns,
                                   active_sessions, interrupt_flags, vs_frame >>
              ELSE HandlerEnds(c, "exception", vs_sent[c])

(* audio.input: not implemented, an error is sent and the loop goes on *)
AudioInput(c) ==
    /\ vs_received' = [vs_received EXCEPT ![c] = Inbound("audio.input", FALSE)]
    /\ InLoop(c)
    /\ Replies(c, << ErrorMessage("Audio processing not yet implemented") >>, "ready")
    /\ UNCHANGED << sessions, vs_session_id, vs_context, vs_turns,
                    active_sessions, interrupt_flags, vs_frame >>

(* interrupt_manager.interrupt_session(session_id): the value it returns   *)
(* and the flags it leaves                                                 *)
InterruptedReturn(c) == vs_session_id[c] \in DOMAIN active_sessions
(* an interrupt_session that reports success without setting the flag *)
InterruptedFlags_Unset(c) == interrupt_flags

InterruptedFlags(c) ==
    IF InterruptedReturn(c) THEN DictSet(interrupt_flags, vs_session_id[c], TRUE)
    ELSE interrupt_flags

(* interrupt.speech: interrupt_session on the handler's session id, and    *)
(* speech.interrupted with its return value                                *)
InterruptSpeech(c) ==
    /\ vs_received' = [vs_received EXCEPT ![c] = Inbound("interrupt.speech", FALSE)]
    /\ InLoop(c)
    /\ interrupt_flags' = InterruptedFlags(c)
    /\ Replies(c, << SpeechInterrupted(InterruptedReturn(c)) >>, "ready")
    /\ UNCHANGED << sessions, vs_session_id, vs_context, vs_turns,
                    active_sessions, vs_frame >>

(* user.speaking: the same, and the inbound interrupted_tts is echoed *)
UserSpeaking(c, interrupted_tts) ==
    /\ vs_received' = [vs_received EXCEPT ![c] = Inbound("user.speaking", interrupted_tts)]
    /\ InLoop(c)
    /\ interrupt_flags' = InterruptedFlags(c)
    /\ Replies(c, << SpeechInterruptedEcho(InterruptedReturn(c), interrupted_tts) >>, "ready")
    /\ UNCHANGED << sessions, vs_session_id, vs_context, vs_turns,
                    active_sessions, vs_frame >>

(* tts.started: clear_interrupt, then tts.acknowledged *)
TtsStarted(c) ==
    /\ vs_received' = [vs_received EXCEPT ![c] = Inbound("tts.started", FALSE)]
    /\ InLoop(c)
    /\ interrupt_flags' = IF vs_session_id[c] \in DOMAIN interrupt_flags
                            THEN DictSet(interrupt_flags, vs_session_id[c], FALSE)
                            ELSE interrupt_flags
    /\ Replies(c, << TtsAcknowledged >>, "ready")
    /\ UNCHANGED << sessions, vs_session_id, vs_context, vs_turns,
                    active_sessions, vs_frame >>

(* a tts.ended that clears the interrupt flag as tts.started does *)
TtsEnded_Clears(c) ==
    /\ vs_received' = [vs_received EXCEPT ![c] = Inbound("tts.ended", FALSE)]
    /\ InLoop(c)
    /\ interrupt_flags' = IF vs_session_id[c] \in DOMAIN interrupt_flags
                            THEN DictSet(interrupt_flags, vs_session_id[c], FALSE)
                            ELSE interrupt_flags
    /\ Replies(c, << TtsAcknowledged >>, "ready")
    /\ UNCHANGED << sessions, vs_session_id, vs_context, vs_turns,
                    active_sessions, vs_frame >>

(* tts.ended: tts.acknowledged *)
TtsEnded(c) ==
    /\ vs_received' = [vs_received EXCEPT ![c] = Inbound("tts.ended", FALSE)]
    /\ InLoop(c)
    /\ Replies(c, << TtsAcknowledged >>, "ready")
    /\ UNCHANGED << sessions, vs_session_id, vs_context, vs_turns,
                    active_sessions, interrupt_flags, vs_frame >>

(* tts.generate: tts.generated with the outcome of generate_tts *)
TtsGenerate(c, outcome) ==
    /\ vs_received' = [vs_received EXCEPT ![c] = Inbound("tts.generate", FALSE)]
    /\ InLoop(c)
    /\ Replies(c, << TtsGenerated(outcome = "ok") >>, "ready")
    /\ UNCHANGED << sessions, vs_session_id, vs_context, vs_turns,
                    active_sessions, interrupt_flags, vs_frame >>

(* a message type no branch of the loop handles *)
OtherMessage(c) ==
    /\ vs_received' = [vs_received EXCEPT ![c] = Inbound("other", FALSE)]
    /\ InLoop(c)
    /\ Replies(c, << >>, "ready")
    /\ UNCHANGED << sessions, vs_session_id, vs_context, vs_turns,
                    active_sessions, interrupt_flags, vs_frame >>

(* session.end: `break`, then the finally clause *)
SessionEnd(c) ==
    /\ vs_received' = [vs_received EXCEPT ![c] = Inbound("session.end", FALSE)]
    /\ InLoop(c)
    /\ HandlerEnds(c, "session.end", << >>)
    /\ UNCHANGED sessions

VSNext ==
    \/ \E c \in Serial : Accept(c)
    \/ \E c \in Serial : ClientDisconnect(c)
    \/ \E c \in Serial : ReceiveDisconnect(c)
    \/ \E c \in Serial : NotSessionStart(c)
    \/ \E c \in Serial, s \in SessionIds : SessionStart(c, s)
    \/ \E c \in Serial : MessageRaises(c)
    \/ \E c \in Serial, text \in {UserText(vs_turns + 1)} : TextInput(c, text)
    \/ \E c \in Serial : AgentYieldsChunk(c)
    \/ \E c \in Serial : AgentRaises(c)
    \/ \E c \in Serial, outcome \in TtsOutcomes : GenerateTts(c, outcome)
    \/ \E c \in Serial : AgentCompletes(c)
    \/ \E c \in Serial : AudioInput(c)
    \/ \E c \in Serial : InterruptSpeech(c)
    \/ \E c \in Serial, interrupted_tts \in BOOLEAN : UserSpeaking(c, interrupted_tts)
    \/ \E c \in Serial : TtsStarted(c)
    \/ \E c \in Serial : TtsEnded(c)
    \/ \E c \in Serial, outcome \in TtsOutcomes : TtsGenerate(c, outcome)
    \/ \E c \in Serial : OtherMessage(c)
    \/ \E c \in Serial : SessionEnd(c)

(* two connections served at the same time, over the messages that touch  *)
(* the shared table of sessions and the interrupt manager                  *)
VSPairNext ==
    \/ \E c \in Conns : Accept(c)
    \/ \E c \in Conns : ReceiveDisconnect(c)
    \/ \E c \in Conns, s \in SessionIds : SessionStart(c, s)
    \/ \E c \in Conns : MessageRaises(c)
    \/ \E c \in Conns, text \in {UserText(vs_turns + 1)} : TextInput(c, text)
    \/ \E c \in Conns : AgentYieldsChunk(c)
    \/ \E c \in Conns, outcome \in TtsOutcomes : GenerateTts(c, outcome)
    \/ \E c \in Conns : AgentCompletes(c)
    \/ \E c \in Conns : InterruptSpeech(c)
    \/ \E c \in Conns : TtsStarted(c)
    \/ \E c \in Conns : SessionEnd(c)

(***************************************************************************)
(* Specifications                                                          *)
(***************************************************************************)
InitChunk ==
    /\ active_sessions = EmptyDict
    /\ interrupt_flags = EmptyDict
    /\ im_call = [op |-> "init", sid |-> NoSession, out |-> Returned("None")]
    /\ im_log = << >>
    /\ stream_text \in Texts
    /\ stream_pos = 0
    /\ fast_buffer = << >> /\ fast_sent = << >> /\ fast_step = NoStep
    /\ opt_buffer = << >> /\ opt_sent = << >> /\ opt_step = NoStep
    /\ pc = "idle"
    /\ context_messages = << >>
    /\ message = << >>
    /\ events = << >>
    /\ full_response = << >>
    /\ sentence_buffer = << >>
    /\ tool_calls = << >>
    /\ current_tool_call = NoToolCall
    /\ tool_results = << >>
    /\ llm_calls = 0
    /\ failure = NoFailure
    /\ deltas_used = 0
    /\ turns = 0
    /\ sessions = EmptyDict
    /\ vs_pc = [c \in Conns |-> "closed"]
    /\ vs_session_id = [c \in Conns |-> NoSession]
    /\ vs_context = [c \in Conns |-> NoContext]
    /\ vs_chunk_count = [c \in Conns |-> 0]
    /\ vs_sent = [c \in Conns |-> << >>]
    /\ vs_connected = [c \in Conns |-> FALSE]
    /\ vs_agent = [c \in Conns |-> NoAgent]
    /\ vs_tts = [c \in Conns |-> << >>]
    /\ vs_ended = [c \in Conns |-> "-"]
    /\ vs_turns = 0
    /\ vs_received = [c \in Conns |-> NoMessage]
    /\ _tools = EmptyDict
    /\ rg_call = [op |-> "init", name |-> "-", out |-> Returned("None")]
    /\ rg_log = << >>
    /\ tx_calls = << >>
    /\ tx_outcomes = << >>
    /\ tx_optimized = NotRun
    /\ tx_fast = NotRun
    /\ gr_state = [current_intent |-> "unknown", error_count |-> 0]
    /\ gr_node = "detect_intent"
    /\ gr_path = << >>
    /\ gr_route = NoRoute
    /\ ac_deltas = << >>
    /\ ac_tool_calls = << >>
    /\ ac_current = NoToolCall
    /\ ac_ended = FALSE

(* the state after construction: empty manager, no turn started, no text   *)
(* streamed                                                                *)
Init ==
    /\ active_sessions = EmptyDict
    /\ interrupt_flags = EmptyDict
    /\ im_call = [op |-> "init", sid |-> NoSession, out |-> Returned("None")]
    /\ im_log = << >>
    /\ stream_text = << >>
    /\ stream_pos = 0
    /\ fast_buffer = << >> /\ fast_sent = << >> /\ fast_step = NoStep
    /\ opt_buffer = << >> /\ opt_sent = << >> /\ opt_step = NoStep
    /\ pc = "idle"
    /\ context_messages = << >>
    /\ message = << >>
    /\ events = << >>
    /\ full_response = << >>
    /\ sentence_buffer = << >>
    /\ tool_calls = << >>
    /\ current_tool_call = NoToolCall
    /\ tool_results = << >>
    /\ llm_calls = 0
    /\ failure = NoFailure
    /\ deltas_used = 0
    /\ turns = 0
    /\ sessions = EmptyDict
    /\ vs_pc = [c \in Conns |-> "closed"]
    /\ vs_session_id = [c \in Conns |-> NoSession]
    /\ vs_context = [c \in Conns |-> NoContext]
    /\ vs_chunk_count = [c \in Conns |-> 0]
    /\ vs_sent = [c \in Conns |-> << >>]
    /\ vs_connected = [c \in Conns |-> FALSE]
    /\ vs_agent = [c \in Conns |-> NoAgent]
    /\ vs_tts = [c \in Conns |-> << >>]
    /\ vs_ended = [c \in Conns |-> "-"]
    /\ vs_turns = 0
    /\ vs_received = [c \in Conns |-> NoMessage]
    /\ _tools = EmptyDict
    /\ rg_call = [op |-> "init", name |-> "-", out |-> Returned("None")]
    /\ rg_log = << >>
    /\ tx_calls = << >>
    /\ tx_outcomes = << >>
    /\ tx_optimized = NotRun
    /\ tx_fast = NotRun
    /\ gr_state = [current_intent |-> "unknown", error_count |-> 0]
    /\ gr_node = "detect_intent"
    /\ gr_path = << >>
    /\ gr_route = NoRoute
    /\ ac_deltas = << >>
    /\ ac_tool_calls = << >>
    /\ ac_current = NoToolCall
    /\ ac_ended = FALSE

(* the tool calls of a turn, before either agent's _execute_tools runs *)
InitTools ==
    /\ active_sessions = EmptyDict
    /\ interrupt_flags = EmptyDict
    /\ im_call = [op |-> "init", sid |-> NoSession, out |-> Returned("None")]
    /\ im_log = << >>
    /\ stream_text = << >>
    /\ stream_pos = 0
    /\ fast_buffer = << >> /\ fast_sent = << >> /\ fast_step = NoStep
    /\ opt_buffer = << >> /\ opt_sent = << >> /\ opt_step = NoStep
    /\ pc = "idle"
    /\ context_messages = << >>
    /\ message = << >>
    /\ events = << >>
    /\ full_response = << >>
    /\ sentence_buffer = << >>
    /\ tool_calls = << >>
    /\ current_tool_call = NoToolCall
    /\ tool_results = << >>
    /\ llm_calls = 0
    /\ failure = NoFailure
    /\ deltas_used = 0
    /\ turns = 0
    /\ sessions = EmptyDict
    /\ vs_pc = [c \in Conns |-> "closed"]
    /\ vs_session_id = [c \in Conns |-> NoSession]
    /\ vs_context = [c \in Conns |-> NoContext]
    /\ vs_chunk_count = [c \in Conns |-> 0]
    /\ vs_sent = [c \in Conns |-> << >>]
    /\ vs_connected = [c \in Conns |-> FALSE]
    /\ vs_agent = [c \in Conns |-> NoAgent]
    /\ vs_tts = [c \in Conns |-> << >>]
    /\ vs_ended = [c \in Conns |-> "-"]
    /\ vs_turns = 0
    /\ vs_received = [c \in Conns |-> NoMessage]
    /\ _tools = EmptyDict
    /\ rg_call = [op |-> "init", name |-> "-", out |-> Returned("None")]
    /\ rg_log = << >>
    /\ tx_calls \in CallLists
    /\ tx_outcomes \in [1..Len(tx_calls) -> {"ok", "raise"}]
    /\ tx_optimized = NotRun
    /\ tx_fast = NotRun
    /\ gr_state = [current_intent |-> "unknown", error_count |-> 0]
    /\ gr_node = "detect_intent"
    /\ gr_path = << >>
    /\ gr_route = NoRoute
    /\ ac_deltas = << >>
    /\ ac_tool_calls = << >>
    /\ ac_current = NoToolCall
    /\ ac_ended = FALSE

(* the AgentState a caller hands to the graph or to route_after_intent *)
InitGraph ==
    /\ active_sessions = EmptyDict
    /\ interrupt_flags = EmptyDict
    /\ im_call = [op |-> "init", sid |-> NoSession, out |-> Returned("None")]
    /\ im_log = << >>
    /\ stream_text = << >>
    /\ stream_pos = 0
    /\ fast_buffer = << >> /\ fast_sent = << >> /\ fast_step = NoStep
    /\ opt_buffer = << >> /\ opt_sent = << >> /\ opt_step = NoStep
    /\ pc = "idle"
    /\ context_messages = << >>
    /\ message = << >>
    /\ events = << >>
    /\ full_response = << >>
    /\ sentence_buffer = << >>
    /\ tool_calls = << >>
    /\ current_tool_call = NoToolCall
    /\ tool_results = << >>
    /\ llm_calls = 0
    /\ failure = NoFailure
    /\ deltas_used = 0
    /\ turns = 0
    /\ sessions = EmptyDict
    /\ vs_pc = [c \in Conns |-> "closed"]
    /\ vs_session_id = [c \in Conns |-> NoSession]
    /\ vs_context = [c \in Conns |-> NoContext]
    /\ vs_chunk_count = [c \in Conns |-> 0]
    /\ vs_sent = [c \in Conns |-> << >>]
    /\ vs_connected = [c \in Conns |-> FALSE]
    /\ vs_agent = [c \in Conns |-> NoAgent]
    /\ vs_tts = [c \in Conns |-> << >>]
    /\ vs_ended = [c \in Conns |-> "-"]
    /\ vs_turns = 0
    /\ vs_received = [c \in Conns |-> NoMessage]
    /\ _tools = EmptyDict
    /\ rg_call = [op |-> "init", name |-> "-", out |-> Returned("None")]
    /\ rg_log = << >>
    /\ tx_calls = << >>
    /\ tx_outcomes = << >>
    /\ tx_optimized = NotRun
    /\ tx_fast = NotRun
    /\ gr_state \in [current_intent : Intents, error_count : 0..MaxErrorCount]
    /\ gr_node = "detect_intent"
    /\ gr_path = << >>
    /\ gr_route = NoRoute
    /\ ac_deltas = << >>
    /\ ac_tool_calls = << >>
    /\ ac_current = NoToolCall
    /\ ac_ended = FALSE

SpecChunk == InitChunk /\ [][ChunkNext]_vars

SpecIM == Init /\ [][IMNext]_vars

SpecEngine == Init /\ [][EngineNext]_vars

SpecVS == Init /\ [][VSNext]_vars

SpecVSPair == Init /\ [][VSPairNext]_vars

SpecTools == InitTools /\ [][ToolsNext]_vars

SpecRegistry == Init /\ [][RegistryNext]_vars

SpecAccumulate == Init /\ [][AccumulateNext]_vars

SpecGraph == InitGraph /\ [][GraphNext]_vars

(* the compiled graph runs a node after the other until END *)
LiveSpecGraph == SpecGraph /\ WF_vars(GraphNext)

(* the provider's streams are finite and the generator is driven to its    *)
(* end by its consumer: every enabled step of the turn is eventually taken *)
LiveSpecEngine == SpecEngine /\ WF_vars(EngineNext)

(***************************************************************************)
(* Properties of SimpleInterruptManager, read off the log of calls         *)
(***************************************************************************)
IsOp(i, op, s) == im_log[i].op = op /\ im_log[i].sid = s

(* s was registered and not cleaned up since *)
RegisteredByLog(s) ==
    \E r \in 1..Len(im_log) :
        /\ IsOp(r, "register_session", s)
        /\ \A j \in (r + 1)..Len(im_log) : ~IsOp(j, "cleanup_session", s)

(* s is registered and the last flag-changing call on it since its last    *)
(* registration is interrupt_session                                       *)
InterruptedByLog(s) ==
    \E r \in 1..Len(im_log) : \E i \in (r + 1)..Len(im_log) :
        /\ IsOp(r, "register_session", s)
        /\ IsOp(i, "interrupt_session", s)
        /\ \A j \in (r + 1)..Len(im_log) : ~IsOp(j, "cleanup_session", s)
        /\ \A j \in (i + 1)..Len(im_log) :
              /\ ~IsOp(j, "register_session", s)
              /\ ~IsOp(j, "clear_interrupt", s)

Call(op, s) == [op |-> op, sid |-> s]

(* C2: interrupt isolation.  A call on one session leaves the registration *)
(* and the interrupt flag of every other session unchanged; after          *)
(* registering a and b and interrupting a, a is interrupted and b is not.  *)
C2_Scenario ==
    \A a, b \in SessionIds :
        (a # b /\ im_log \in { << Call("register_session", a), Call("register_session", b),
                                 Call("interrupt_session", a) >>,
                              << Call("register_session", b), Call("register_session", a),
                                 Call("interrupt_session", a) >> })
            => IsInterruptedNow(a) /\ ~IsInterruptedNow(b)

C2_Frame ==
    \A b \in SessionIds :
        (im_log' # im_log /\ b # im_call'.sid) =>
            /\ IsRegisteredNow(b)' = IsRegisteredNow(b)
            /\ (b \in DOMAIN interrupt_flags)' = (b \in DOMAIN interrupt_flags)
            /\ IsInterruptedNow(b)' = IsInterruptedNow(b)

C2_InterruptIsolation == [](C2_Scenario) /\ [][C2_Frame]_vars

C2_Witness ==
    /\ im_log = << Call("register_session", "A"), Call("register_session", "B"),
                   Call("interrupt_session", "A") >>
    /\ IsInterruptedNow("A")
    /\ IsRegisteredNow("B") /\ ~IsInterruptedNow("B")

(* C3: is_interrupted(s) is true exactly when s is registered and the most *)
(* recent flag-changing call on s since its last registration is           *)
(* interrupt_session(s); register_session and clear_interrupt leave the    *)
(* flag false; interrupt_session on a registered session returns true.     *)
C3_FlagFollowsLastOp ==
    /\ \A s \in SessionIds : IsInterruptedNow(s) <=> InterruptedByLog(s)
    /\ im_call.op = "is_interrupted" =>
          im_call.out = Returned(InterruptedByLog(im_call.sid))
    /\ im_call.op \in {"register_session", "clear_interrupt"} =>
          ~IsInterruptedNow(im_call.sid)
    /\ (im_call.op = "interrupt_session" /\ RegisteredByLog(im_call.sid)) =>
          im_call.out = Returned(TRUE)

(* an interrupted session was registered again and reads as not interrupted *)
C3_Witness ==
    \E s \in SessionIds :
        /\ Len(im_log) = 4
        /\ im_log[1] = Call("register_session", s)
        /\ im_log[2] = Call("interrupt_session", s)
        /\ im_log[3] = Call("register_session", s)
        /\ im_call = [op |-> "is_interrupted", sid |-> s, out |-> Returned(FALSE)]

(* C4: on a session that is not registered (never registered, or cleaned   *)
(* up since), interrupt_session and is_interrupted return false,           *)
(* clear_interrupt and cleanup_session change nothing, none of them raises *)
(* and none creates an entry for the session.                              *)
C4_Step ==
    (/\ im_log' # im_log
     /\ im_call'.op \in {"interrupt_session", "is_interrupted",
                         "clear_interrupt", "cleanup_session"}
     /\ ~RegisteredByLog(im_call'.sid))
    => /\ ~im_call'.out.raised
       /\ im_call'.op \in {"interrupt_session", "is_interrupted"} =>
             im_call'.out.value = FALSE
       /\ active_sessions' = active_sessions
       /\ interrupt_flags' = interrupt_flags
       /\ im_call'.sid \notin DOMAIN active_sessions'
       /\ im_call'.sid \notin DOMAIN interrupt_flags'

C4_UnregisteredNoOp == [][C4_Step]_vars

(* interrupt_session returned false on a session registered and cleaned up *)
C4_Witness ==
    \E s \in SessionIds :
        /\ Len(im_log) = 3
        /\ im_log[1] = Call("register_session", s)
        /\ im_log[2] = Call("cleanup_session", s)
        /\ im_call = [op |-> "interrupt_session", sid |-> s, out |-> Returned(FALSE)]
        /\ s \notin DOMAIN interrupt_flags


(***************************************************************************)
(* Properties of the sentence loops                                        *)
(***************************************************************************)
HasBoundary(buf) == \E i \in 1..Len(buf) : BoundaryLenAt(buf, i) > 0

(* the text after the last boundary of the buffer *)
TrailingFragment(buf) == SplitCapture(buf)[Len(SplitCapture(buf))]

IsSuffix(x, y) ==
    /\ Len(x) <= Len(y)
    /\ SubSeq(y, Len(y) - Len(x) + 1, Len(y)) = x

(* the sentence s ends with punctuation and stands in the buffer right     *)
(* before whitespace (or carries that whitespace itself)                   *)
Terminated(buf, s) ==
    /\ RStrip(s) # << >>
    /\ IsPunct(RStrip(s)[Len(RStrip(s))])
    /\ \E p \in 1..Len(buf) :
          /\ OccursAt(buf, s, p)
          /\ \/ IsSpace(s[Len(s)])
             \/ (p + Len(s) <= Len(buf) /\ IsSpace(buf[p + Len(s)]))

NoEarlyEmission(step) ==
    /\ ~HasBoundary(step.buffer_in) => step.yielded = << >>
    /\ \A k \in 1..Len(step.yielded) : Terminated(step.buffer_in, step.yielded[k])
    /\ IsSuffix(Strip(TrailingFragment(step.buffer_in)), Strip(step.buffer))

(* C5: no early emission.  In each iteration of a sentence loop, a buffer  *)
(* without boundary punctuation plus whitespace yields nothing, every      *)
(* sentence yielded is text of the buffer that is followed by such a       *)
(* boundary, and the trailing unterminated fragment stays in the buffer.   *)
C5_NoEarlyEmission == NoEarlyEmission(fast_step) /\ NoEarlyEmission(opt_step)

Dr == << "D", "r" >>
DrDot == << "D", "r", "." >>
DrDotSpace == << "D", "r", ".", " " >>
SmithIsHereDot == << "S", "m", "i", "t", "h", " ", "i", "s", " ",
                     "h", "e", "r", "e", "." >>
SmithIsHereDotSpace == SmithIsHereDot \o << " " >>

(* C6, as the claim states it: the buffer "Dr. Smith is here. " yields     *)
(* exactly one sentence, the whole buffer.                                 *)
C6_DrSmithOneSentence ==
    /\ fast_step.buffer_in = DrSmith => fast_step.yielded = << DrSmith >>
    /\ opt_step.buffer_in = DrSmith => opt_step.yielded = << DrSmith >>

(* C6, amended: the period after "Dr" is followed by whitespace and is a   *)
(* sentence boundary.  On the buffer "Dr. Smith is here. " FastVoiceAgent  *)
(* yields the two sentences "Dr." and "Smith is here." and keeps an empty  *)
(* buffer; OptimizedVoiceAgent yields "Dr. " and keeps "Smith is here. ";  *)
(* on the buffer "Dr" both yield nothing.                                  *)
C6_DrSmithTwoSentences ==
    /\ fast_step.buffer_in = DrSmith =>
          /\ fast_step.yielded = << DrDot, SmithIsHereDot >>
          /\ fast_step.buffer = << >>
    /\ opt_step.buffer_in = DrSmith =>
          /\ opt_step.yielded = << DrDotSpace >>
          /\ opt_step.buffer = SmithIsHereDotSpace
    /\ fast_step.buffer_in = Dr => fast_step.yielded = << >> /\ fast_step.buffer = Dr
    /\ opt_step.buffer_in = Dr => opt_step.yielded = << >> /\ opt_step.buffer = Dr

(* the whole buffer was handed to both loops in one iteration *)
C6_Witness ==
    /\ stream_text = DrSmith
    /\ stream_pos = Len(DrSmith)
    /\ fast_step.buffer_in = DrSmith /\ Len(fast_step.yielded) = 2
    /\ opt_step.buffer_in = DrSmith /\ Len(opt_step.yielded) = 1

(* C7: chunking idempotence.  Once the whole text has been delivered in    *)
(* deltas, FastVoiceAgent's loop has yielded the sentences, and holds the  *)
(* remainder, that one pass over the whole text gives.  The remainders are *)
(* compared up to the surrounding whitespace that _get_sentence_remainder  *)
(* strips.                                                                 *)
C7_ChunkingIdempotence ==
    stream_pos = Len(stream_text) =>
        /\ fast_sent = FastSentenceLoop(<< >>, stream_text).yielded
        /\ Strip(fast_buffer) = Strip(FastSentenceLoop(<< >>, stream_text).buffer)


(***************************************************************************)
(* Properties of the streaming turn                                        *)
(***************************************************************************)
CompletionIndexes == { i \in 1..Len(events) : events[i].type = "completion" }
ChunkIndexes == { i \in 1..Len(events) : events[i].type = "text_chunk" }

(* the contents of the text_chunk events among events[i..], in order *)
RECURSIVE ChunkTextFrom(_)
ChunkTextFrom(i) ==
    IF i > Len(events) THEN << >>
    ELSE (IF events[i].type = "text_chunk" THEN events[i].content ELSE << >>)
             \o ChunkTextFrom(i + 1)

InTurn == pc \notin {"idle", "done"}

(* C1: the turn always completes.  Whatever the streams deliver (text,     *)
(* tool calls, unparseable arguments, unknown tools) and wherever the      *)
(* provider raises, the turn reaches its end, and its events then hold     *)
(* exactly one completion, which is the last event; no completion is       *)
(* yielded before the end.                                                 *)
C1_OneCompletionLast ==
    /\ pc = "done" =>
          /\ CompletionIndexes = { Len(events) }
          /\ Len(events) >= 1
    /\ InTurn => CompletionIndexes = {}

C1_TurnCompletes == [](C1_OneCompletionLast) /\ (InTurn ~> pc = "done")

(* a turn with a tool call whose arguments do not parse and a tool that is *)
(* not known, whose secondary stream raised, has completed                 *)
C1_Witness ==
    /\ pc = "done"
    /\ failure.failed /\ failure.at = "secondary"
    /\ \E i \in 1..Len(tool_calls) :
          tool_calls[i].arguments # << >> /\ ~JsonLoads(tool_calls[i].arguments)
    /\ \E i \in 1..Len(tool_calls) : tool_calls[i].name \notin AllowedTools
    /\ events[Len(events)].type = "completion"

(* C8: when the primary LLM call fails, in create() or while its stream is *)
(* consumed, the events from the failure on are one apology text_chunk     *)
(* with trigger_tts and one completion carrying the same apology text.     *)
C8_PrimaryFailureApology ==
    (failure.failed /\ failure.at \in {"primary_call", "primary"}) =>
        /\ pc = "done"
        /\ Len(events) = failure.events_before + 2
        /\ events[Len(events) - 1].type = "text_chunk"
        /\ events[Len(events) - 1].trigger_tts
        /\ events[Len(events) - 1].content = error_msg
        /\ events[Len(events)].type = "completion"
        /\ events[Len(events)].full_response = events[Len(events) - 1].content

(* the primary stream raised after text had been streamed and a sentence   *)
(* had been yielded                                                        *)
C8_Witness ==
    /\ failure.failed /\ failure.at = "primary"
    /\ failure.events_before >= 1
    /\ full_response # << >>
    /\ events[Len(events)].type = "completion"

(* C9: a turn that has yielded its completion has appended one user        *)
(* Message and then one assistant Message whose content is the             *)
(* completion's full_response, so the context holds two messages per turn. *)
C9_TurnAppendsUserAndAssistant ==
    pc = "done" =>
        /\ Len(context_messages) = 2 * turns
        /\ context_messages[Len(context_messages) - 1] = Message("user", message)
        /\ context_messages[Len(context_messages)].role = "assistant"
        /\ context_messages[Len(context_messages)].content
              = events[Len(events)].full_response

(* C10, as the claim states it: in every turn the completion's             *)
(* full_response is the concatenation of the contents of the turn's        *)
(* text_chunk events.                                                      *)
C10_CompletionIsConcatOfChunks ==
    pc = "done" => events[Len(events)].full_response = ChunkTextFrom(1)

(* C10, amended: in a turn that ends without entering the except branch,   *)
(* the completion's full_response is the whole streamed text, and it is    *)
(* the concatenation of the contents of the turn's text_chunk events       *)
(* unless the streamed text is all whitespace, in which case no text_chunk *)
(* is yielded; in a turn that enters the except branch, full_response is   *)
(* the content of the last text_chunk, the apology, and the chunks yielded *)
(* before the failure are not part of it.                                  *)
C10_CompletionVersusChunks ==
    pc = "done" =>
        IF failure.failed
        THEN /\ events[Len(events)].full_response = events[Len(events) - 1].content
             /\ events[Len(events)].full_response
                   = ChunkTextFrom(failure.events_before + 1)
        ELSE /\ events[Len(events)].full_response = full_response
             /\ IF NonBlank(full_response)
                THEN ChunkTextFrom(1) = full_response
                ELSE ChunkIndexes = {}

(* a turn without failure whose text came from both streams, yielded a     *)
(* sentence mid-stream and flushed a remainder                             *)
C10_Witness ==
    /\ pc = "done" /\ ~failure.failed
    /\ llm_calls = 2
    /\ Cardinality(ChunkIndexes) >= 2
    /\ ~IsPunct(RStrip(full_response)[Len(RStrip(full_response))])

(***************************************************************************)
(* Properties of voice_session                                             *)
(***************************************************************************)
OfType(msgs, type) == SelectSeq(msgs, LAMBDA m : m.type = type)

(* the turn of connection c has run to its end: the agent's completion was *)
(* handled and the handler is back at its receive                          *)
TurnOver(c) ==
    /\ vs_pc[c] = "ready"
    /\ vs_agent[c].events # << >>
    /\ vs_agent[c].events[Len(vs_agent[c].events)].type = "completion"

(* connection c is handling a text.input, or has just finished one *)
TurnOpen(c) == vs_pc[c] \in {"turn", "tts"} \/ TurnOver(c)

IsTextChunk(m, n) == m.type = "text.chunk" /\ m.chunk_id = n
IsAudioChunk(m, n) == m.type = "audio.chunk" /\ m.chunk_id = n

(* C11: for one text.input, text.chunk n is sent before audio.chunk n,     *)
(* which is sent before text.chunk n+1; the chunk ids are 1..k in the      *)
(* order in which the agent yielded the chunks; and a turn that has run to *)
(* its end has sent exactly one agent.response, as its last message, whose *)
(* chunks_sent is k, the number of text.chunk messages of the turn.        *)
C11_ChunkOrder ==
    \A c \in Conns : TurnOpen(c) =>
        LET sent == vs_sent[c]
            texts == OfType(sent, "text.chunk")
            chunks == OfType(vs_agent[c].events, "text_chunk")
            responses == OfType(sent, "agent.response")
            k == Len(texts)
        IN  /\ k = Len(chunks)
            /\ \A n \in 1..k : /\ texts[n].chunk_id = n
                               /\ texts[n].text = chunks[n].content
            /\ \A i \in 1..Len(sent) :
                   sent[i].type = "audio.chunk" =>
                       /\ \E j \in 1..(i - 1) : IsTextChunk(sent[j], sent[i].chunk_id)
                       /\ \A j \in 1..(i - 1) :
                              /\ ~ IsTextChunk(sent[j], sent[i].chunk_id + 1)
                              /\ ~ IsAudioChunk(sent[j], sent[i].chunk_id)
            /\ IF TurnOver(c)
                 THEN /\ Len(responses) = 1
                      /\ sent[Len(sent)].type = "agent.response"
                      /\ sent[Len(sent)].chunks_sent = k
                 ELSE responses = << >>

(* a turn of two chunks has ended, the first with audio, the second without *)
C11_Witness ==
    \E c \in Conns :
        /\ TurnOver(c)
        /\ Len(OfType(vs_sent[c], "text.chunk")) = 2
        /\ vs_tts[c] = << TRUE, FALSE >>
        /\ Len(vs_sent[c]) = 4

(* the step is a synthesis of connection c that failed *)
TtsFails(c) ==
    /\ vs_pc[c] = "tts"
    /\ vs_pc'[c] # "tts"
    /\ vs_connected[c]
    /\ Len(OfType(vs_sent'[c], "audio.chunk")) = Len(OfType(vs_sent[c], "audio.chunk"))

C12_Step ==
    \A c \in Conns : TtsFails(c) =>
        /\ vs_pc'[c] = "turn"
        /\ vs_sent'[c] = vs_sent[c]
        /\ vs_agent'[c] = vs_agent[c]
        /\ vs_chunk_count'[c] = vs_chunk_count[c]
        /\ vs_tts'[c] = Append(vs_tts[c], FALSE)

C12_TurnEnds ==
    \A c \in Conns : TurnOver(c) =>
        /\ Len(vs_tts[c]) = Len(OfType(vs_sent[c], "text.chunk"))
        /\ Len(vs_tts[c]) = Len(OfType(vs_agent[c].events, "text_chunk"))
        /\ OfType(vs_sent[c], "agent.response") # << >>

(* C12: a synthesis that fails (success false, or an exception) does not   *)
(* end the turn: the handler goes on waiting for the agent's next event    *)
(* with nothing else changed, and a turn that has run to its end has made  *)
(* one synthesis attempt for each of its text.chunk messages, whatever the *)
(* outcomes of the earlier attempts, and has sent agent.response.          *)
C12_TtsFailureDoesNotAbort == [](C12_TurnEnds) /\ [][C12_Step]_vars

(* the first synthesis of a turn failed, the second chunk was sent and     *)
(* synthesized all the same, and the turn ended with agent.response        *)
C12_Witness ==
    \E c \in Conns :
        /\ TurnOver(c)
        /\ vs_tts[c] = << FALSE, TRUE >>
        /\ Len(OfType(vs_sent[c], "text.chunk")) = 2
        /\ Len(OfType(vs_sent[c], "audio.chunk")) = 1

(* C13: every text.chunk whose synthesis is over is followed at once by an *)
(* audio.chunk or by an error message, as long as the client is there.     *)
C13_FailureNeverSilent ==
    \A c \in Conns : (TurnOpen(c) /\ vs_connected[c]) =>
        \A i \in 1..Len(vs_sent[c]) :
            (vs_sent[c][i].type = "text.chunk" /\ (i < Len(vs_sent[c]) \/ vs_pc[c] # "tts")) =>
                /\ i < Len(vs_sent[c])
                /\ vs_sent[c][i + 1].type \in {"audio.chunk", "error"}

(* the step is the handling of a first message that is not a well-formed   *)
(* session.start                                                           *)
WrongFirstMessage(c) ==
    /\ vs_pc[c] = "accepted"
    /\ vs_pc'[c] = "returned"
    /\ vs_ended'[c] \in {"return", "exception"}

C18_Step ==
    \A c \in Conns : WrongFirstMessage(c) =>
        /\ Len(vs_sent'[c]) = 1
        /\ vs_sent'[c][1].type = "error"
        /\ vs_session_id'[c] = NoSession
        /\ vs_context'[c] = NoContext
        /\ sessions' = sessions
        /\ active_sessions' = active_sessions
        /\ interrupt_flags' = interrupt_flags

(* C18: when the first message of a connection is not session.start, the   *)
(* handler sends exactly one error message and returns: it has no session  *)
(* id and no context, the table of sessions and the interrupt manager are  *)
(* as they were.                                                           *)
C18_NoSessionWithoutStart == [][C18_Step]_vars

(* a handler returned on a wrong first message while a session of an       *)
(* earlier connection is in the table                                      *)
C18_Witness ==
    \E c \in Conns :
        /\ vs_pc[c] = "returned"
        /\ vs_ended[c] = "return"
        /\ vs_sent[c] = << ErrorMessage("Expected session.start message") >>
        /\ sessions # EmptyDict

IsPrefix(s, t) == Len(s) <= Len(t) /\ SubSeq(t, 1, Len(s)) = s

C19_Survives ==
    \A s \in DOMAIN sessions :
        /\ s \in DOMAIN sessions'
        /\ IsPrefix(sessions[s], sessions'[s])

C19_Resumes ==
    \A c \in Conns, s \in SessionIds :
        (vs_pc[c] = "accepted" /\ vs_pc'[c] = "ready" /\ vs_session_id'[c] = s
           /\ s \in DOMAIN sessions) =>
            /\ sessions' = sessions
            /\ vs_context'[c] = s

C20_Step ==
    \A c \in Conns :
        (vs_pc[c] \in {"ready", "turn", "tts"} /\ vs_pc'[c] = "returned") =>
            /\ vs_session_id[c] \notin DOMAIN active_sessions'
            /\ vs_session_id[c] \notin DOMAIN interrupt_flags'

C20_Returned ==
    \A c \in Serial :
        (vs_pc[c] = "returned" /\ vs_session_id[c] # NoSession) =>
            /\ vs_session_id[c] \notin DOMAIN active_sessions
            /\ vs_session_id[c] \notin DOMAIN interrupt_flags

(* C20: once session.start is done, every ending of the handler            *)
(* (session.end, the client's disconnect, an exception while a message is  *)
(* handled or sent) leaves the session id unregistered and without a       *)
(* stored flag; with one connection at a time this is so in every state    *)
(* in which the handler has returned.                                      *)
C20_CleanupOnEveryExit == [](C20_Returned) /\ [][C20_Step]_vars

(* a handler that had a session ended on an exception *)
C20_Witness ==
    \E c \in Conns :
        /\ vs_pc[c] = "returned"
        /\ vs_session_id[c] # NoSession
        /\ vs_ended[c] = "exception"
        /\ OfType(vs_sent[c], "text.chunk") # << >>


(***************************************************************************)
(* Claims about the tool round of OptimizedVoiceAgent                      *)
(***************************************************************************)
(* what makes a tool call fail before tool.execute is reached: arguments   *)
(* that are neither empty nor a JSON document, or a name that is not       *)
(* allow-listed or not in the registry                                     *)
Unparseable(tool_call) == tool_call.arguments \notin { << >>, << "{", "}" >> }
UnknownTool(tool_call) ==
    tool_call.name \notin (AllowedTools \cap RegisteredTools)

ToolRoundDone == pc \in {"secondary_call", "secondary"}

(* every tool call has its own result; a call that fails gets success      *)
(* false, and every call that can be executed is executed and succeeds     *)
(* unless its own execution raises, whatever the other calls did           *)
C14_Results ==
    ToolRoundDone =>
        /\ Len(tool_results) = Len(tool_calls)
        /\ \A i \in 1..Len(tool_calls) :
              LET call == tool_calls[i]
                  result == tool_results[i]
              IN  /\ result.tool_call_id = call.id
                  /\ result.executed <=> ~ (Unparseable(call) \/ UnknownTool(call))
                  /\ result.raised => result.executed
                  /\ result.success <=> (result.executed /\ ~ result.raised)

(* the tool round goes on to the secondary call, never to the except       *)
(* branch                                                                  *)
C14_Step ==
    pc = "tools" => /\ pc' = "secondary_call"
                    /\ ~ failure'.failed
                    /\ events' = events

(* C14: in OptimizedVoiceAgent._execute_tools a tool call that raises, has *)
(* unparseable arguments or an unknown name yields a success-false result  *)
(* for that call only; every other call of the turn is still executed with *)
(* its result unaffected, and the turn proceeds to the secondary LLM pass  *)
(* instead of the error path.                                              *)
C14_ToolIsolation == [](C14_Results) /\ [][C14_Step]_vars

(* a tool round where a call raised and a later call succeeded, and one    *)
(* with an unparseable or unknown call before a successful one             *)
C14_Witness ==
    /\ pc = "secondary"
    /\ \E i, j \in 1..Len(tool_results) :
          /\ i < j
          /\ \/ tool_results[i].raised
             \/ Unparseable(tool_calls[i])
             \/ UnknownTool(tool_calls[i])
          /\ ~ tool_results[i].success
          /\ tool_results[j].success

(***************************************************************************)
(* Claims about the number of rounds of a turn                             *)
(***************************************************************************)
C16_Rounds ==
    /\ llm_calls <= 2
    /\ pc \in {"tools", "secondary_call", "secondary"} => tool_calls # << >>
    /\ llm_calls = 2 => tool_calls # << >>
    /\ tool_results # << >> => tool_calls # << >>
    /\ (pc = "done" /\ ~ failure.failed) =>
          /\ llm_calls = 2 <=> tool_calls # << >>
          /\ Len(tool_results) = Len(tool_calls)

C16_Step ==
    /\ (pc = "primary" /\ pc' \notin {"primary", "done"}) =>
          /\ pc' = "tools" <=> tool_calls' # << >>
          /\ pc' = "flush" <=> tool_calls' = << >>
    /\ tool_results' # tool_results =>
          \/ pc = "tools" /\ tool_results = << >>
          \/ pc \in {"idle", "done"} /\ pc' = "primary_call"
    /\ pc \in {"secondary_call", "secondary", "flush"} =>
          /\ UNCHANGED << tool_calls, current_tool_call, tool_results >>
          /\ pc' \notin {"tools", "primary_call", "primary"}

(* C16: the tool round and the secondary LLM call happen if and only if at *)
(* least one tool call was accumulated by the end of the primary stream;   *)
(* there is at most one tool round per turn, the LLM is called at most     *)
(* twice, and tool-call deltas of the secondary stream are ignored and     *)
(* never executed.                                                         *)
C16_OneToolRound == [](C16_Rounds) /\ [][C16_Step]_vars

(* a turn with a tool round that completed after its second LLM call and   *)
(* consumed a chunk of the secondary stream                                *)
C16_Witness ==
    /\ pc = "done"
    /\ ~ failure.failed
    /\ llm_calls = 2
    /\ tool_calls # << >>
    /\ Len(tool_results) = Len(tool_calls)
    /\ full_response # << >>


(***************************************************************************)
(* Claims about _execute_tools of both agents                              *)
(***************************************************************************)
OneResultPerCall(run) ==
    run.ran =>
        /\ Len(run.results) = Len(tx_calls)
        /\ \A i \in 1..Len(tx_calls) :
              run.results[i].tool_call_id = tx_calls[i].id

(* C15: in both engine variants _execute_tools returns exactly one result  *)
(* per accumulated tool call, in the order of the calls, each carrying the *)
(* tool_call_id of its own call, including when the tool name is unknown   *)
(* or the tool fails.                                                      *)
C15_OneResultPerCall ==
    /\ OneResultPerCall(tx_optimized)
    /\ OneResultPerCall(tx_fast)

(***************************************************************************)
(* Claims about ToolRegistry                                               *)
(***************************************************************************)
Max(S) == CHOOSE x \in S : \A y \in S : y <= x
Min(S) == CHOOSE x \in S : \A y \in S : x <= y

(* the calls of the log after which the name is absent, and the            *)
(* registrations under the name made since the last of them                *)
AbsentAfter(name) ==
    { i \in 1..Len(rg_log) :
         \/ rg_log[i].op = "clear"
         \/ rg_log[i].op = "unregister" /\ rg_log[i].name = name }
LastAbsent(name) == IF AbsentAfter(name) = {} THEN 0 ELSE Max(AbsentAfter(name))
RegisteredSince(name) ==
    { i \in (LastAbsent(name) + 1)..Len(rg_log) :
         rg_log[i].op = "register" /\ rg_log[i].name = name }
OverriddenSince(name) == { i \in RegisteredSince(name) : rg_log[i].override }

(* the first tool registered under the name since it was last absent, or   *)
(* the most recent one registered with override=True                       *)
FirstOrOverride(name) ==
    IF OverriddenSince(name) # {}
      THEN rg_log[Max(OverriddenSince(name))].tool
      ELSE rg_log[Min(RegisteredSince(name))].tool

(* C17: register never replaces a tool already registered under the same   *)
(* name unless override=True: after any sequence of register, unregister   *)
(* and clear calls, get(name) returns the first tool registered under that *)
(* name since the name was last absent, or the most recent one registered  *)
(* with override=True.                                                     *)
C17_FirstOrOverride ==
    /\ \A name \in ToolNames :
          IF RegisteredSince(name) = {}
            THEN name \notin DOMAIN _tools
            ELSE /\ name \in DOMAIN _tools
                 /\ _tools[name] = FirstOrOverride(name)
    /\ rg_call.op = "get" =>
          IF RegisteredSince(rg_call.name) = {}
            THEN rg_call.out.raised
            ELSE /\ ~ rg_call.out.raised
                 /\ rg_call.out.tool = FirstOrOverride(rg_call.name)

(* get returns the first of two tools registered under one name, the       *)
(* second one without override                                             *)
C17_Witness ==
    /\ rg_call.op = "get"
    /\ ~ rg_call.out.raised
    /\ \E i, j \in RegisteredSince(rg_call.name) :
          /\ i < j
          /\ rg_log[i].tool # rg_log[j].tool
          /\ ~ rg_log[j].override
          /\ OverriddenSince(rg_call.name) \subseteq {i}
          /\ rg_call.out.tool = rg_log[i].tool


(***************************************************************************)
(* Claims about the interrupt and tts messages of voice_session            *)
(***************************************************************************)
(* the step is connection c receiving and handling a message of one of     *)
(* the types, at the receive of its dispatch loop                          *)
Handles(c, types) ==
    /\ vs_pc[c] = "ready"
    /\ vs_pc'[c] = "ready"
    /\ vs_received'[c].type \in types

C21_Step ==
    \A c \in Serial : Handles(c, {"interrupt.speech", "user.speaking"}) =>
        LET s == vs_session_id[c]
            success == IsRegisteredNow(s)
        IN  /\ Len(vs_sent'[c]) = 1
            /\ vs_sent'[c][1].type = "speech.interrupted"
            /\ vs_sent'[c][1].success = success
            /\ vs_received'[c].type = "user.speaking" =>
                  vs_sent'[c][1] =
                      SpeechInterruptedEcho(success, vs_received'[c].interrupted_tts)
            /\ vs_received'[c].type = "interrupt.speech" =>
                  vs_sent'[c][1] = SpeechInterrupted(success)
            /\ success => DictGet(interrupt_flags', s, FALSE)
            /\ ~ success => interrupt_flags' = interrupt_flags
            /\ active_sessions' = active_sessions

(* C21: on each interrupt.speech or user.speaking the handler calls        *)
(* interrupt_session for its session id and sends exactly one              *)
(* speech.interrupted whose success is the value interrupt_session         *)
(* returned (true exactly when the session is registered), echoing the     *)
(* inbound interrupted_tts for user.speaking; when success is true the     *)
(* session's flag is true right afterwards.                                *)
C21_InterruptReply == [][C21_Step]_vars

(* user.speaking with interrupted_tts true was answered with success true  *)
(* and the flag is set                                                     *)
C21_Witness ==
    \E c \in Serial :
        /\ vs_pc[c] = "ready"
        /\ vs_received[c] = Inbound("user.speaking", TRUE)
        /\ vs_sent[c] = << SpeechInterruptedEcho(TRUE, TRUE) >>
        /\ IsInterruptedNow(vs_session_id[c])

C22_Started ==
    \A c \in Serial : Handles(c, {"tts.started"}) =>
        /\ vs_sent'[c] = << TtsAcknowledged >>
        /\ ~ DictGet(interrupt_flags', vs_session_id[c], FALSE)
        /\ active_sessions' = active_sessions
        /\ sessions' = sessions

C22_Ended ==
    \A c \in Serial : Handles(c, {"tts.ended"}) =>
        /\ vs_sent'[c] = << TtsAcknowledged >>
        /\ interrupt_flags' = interrupt_flags
        /\ active_sessions' = active_sessions
        /\ sessions' = sessions
        /\ vs_context'[c] = vs_context[c]

(* C22: on tts.started the handler clears its session's interrupt flag and *)
(* sends one tts.acknowledged; on tts.ended it sends one tts.acknowledged  *)
(* and leaves the interrupt flag, the registration and the context as      *)
(* they were.                                                              *)
C22_TtsNotifications == [][C22_Started /\ C22_Ended]_vars

(* tts.ended was acknowledged while the session's flag stayed set *)
C22_Witness ==
    \E c \in Serial :
        /\ vs_pc[c] = "ready"
        /\ vs_received[c].type = "tts.ended"
        /\ vs_sent[c] = << TtsAcknowledged >>
        /\ IsInterruptedNow(vs_session_id[c])
        /\ sessions[vs_context[c]] # << >>


(***************************************************************************)
(* Claims about failures inside voice_session                              *)
(***************************************************************************)
(* the last message sent tells the client of a failure: an error message,  *)
(* tts.generated with success false, or the agent's apology                *)
IsFailureMessage(m) ==
    \/ m.type = "error"
    \/ m.type = "tts.generated" /\ ~ m.success
    \/ m.type = "text.chunk" /\ m.text = error_msg

ToldOfFailure(c) ==
    /\ vs_sent'[c] # << >>
    /\ Len(vs_sent'[c]) = Len(vs_sent[c]) + 1 \/ vs_pc[c] \in {"accepted", "ready"}
    /\ IsFailureMessage(vs_sent'[c][Len(vs_sent'[c])])

C23_Step ==
    \A c \in Serial :
        /\ (vs_pc[c] \in {"accepted", "ready"} /\ vs_received'[c].type = "malformed"
              /\ vs_pc'[c] = "returned" /\ vs_ended'[c] \in {"return", "exception"}) =>
               ToldOfFailure(c)
        /\ TtsFails(c) => ToldOfFailure(c)
        /\ (vs_pc[c] = "turn" /\ vs_connected[c] /\ ~ vs_agent[c].failed
              /\ vs_agent'[c].failed) => ToldOfFailure(c)

(* C23: whenever handling an inbound message fails while the client is     *)
(* there (a malformed message, a failure of the agent, a failed synthesis) *)
(* the handler sends an error message or a failure payload for it; it      *)
(* never ends other than by return, disconnect, session.end or its own     *)
(* except clause.                                                          *)
C23_FailuresAnswered ==
    /\ [](\A c \in Serial :
             vs_ended[c] \in {"-", "return", "disconnect", "exception", "session.end"})
    /\ [][C23_Step]_vars


(***************************************************************************)
(* Claims about what a handler does while a turn is in flight              *)
(***************************************************************************)
TurnInFlight(c) == vs_pc[c] \in {"turn", "tts"} /\ vs_connected[c]

(* C24: while a turn started by text.input is in flight on a connection    *)
(* (the agent or a synthesis still pending), the connection's handler can  *)
(* receive and handle an interrupt.speech: the flag can be set and         *)
(* speech.interrupted sent before the turn's agent.response.               *)
C24_InterruptDuringTurn ==
    \A c \in Serial : TurnInFlight(c) => ENABLED InterruptSpeech(c)


(***************************************************************************)
(* Claims about two connections on one session id                          *)
(***************************************************************************)
InTurnOn(c, s) == vs_pc[c] \in {"turn", "tts"} /\ vs_context[c] = s

Alternates(messages) ==
    \A i \in 1..Len(messages) :
        messages[i].role = IF i % 2 = 1 THEN "user" ELSE "assistant"

(* C25: for one session id turns never overlap: no two handlers are in a   *)
(* turn on the same context at once, and the messages of every context     *)
(* alternate user, assistant in the order of the turns.                    *)
C25_TurnsSequential ==
    \A s \in DOMAIN sessions :
        /\ \A c, d \in Conns : (InTurnOn(c, s) /\ InTurnOn(d, s)) => c = d
        /\ Alternates(sessions[s])

(* every speech.interrupted a handler has sent reports success *)
InterruptsSucceed(c) ==
    \A i \in 1..Len(vs_sent[c]) :
        vs_sent[c][i].type = "speech.interrupted" => vs_sent[c][i].success

(* C29: whenever a handler is in its dispatch loop for session id s (after *)
(* session.ready, before it ends), s is registered in the interrupt        *)
(* manager, so every interrupt.speech it handles is answered with success  *)
(* true; in every interleaving of connections.                             *)
C29_ReadyIsRegistered ==
    \A c \in Conns :
        vs_pc[c] \in {"ready", "turn", "tts"} =>
            /\ IsRegisteredNow(vs_session_id[c])
            /\ InterruptsSucceed(c)


(***************************************************************************)
(* Claims about the interrupt flag and the output of a turn                *)
(***************************************************************************)
(* the messages of a turn as its agent events and synthesis outcomes       *)
(* determine them, from event i on, n text chunks having gone before       *)
RECURSIVE TurnOutput(_, _, _, _)
TurnOutput(evs, tts, i, n) ==
    IF i > Len(evs) THEN << >>
    ELSE IF evs[i].type = "text_chunk"
    THEN << TextChunkMessage(evs[i].content, n + 1) >>
         \o (IF n + 1 <= Len(tts) /\ tts[n + 1]
               THEN << AudioChunkMessage(evs[i].content, n + 1) >> ELSE << >>)
         \o TurnOutput(evs, tts, i + 1, n + 1)
    ELSE << AgentResponse(evs[i].full_response, n) >>
         \o TurnOutput(evs, tts, i + 1, n)

(* what the handler has sent in a turn is a function of what the agent     *)
(* yielded and of the outcomes of the syntheses, whatever the flag is      *)
C30_OutputDetermined ==
    \A c \in Conns : (TurnOpen(c) /\ vs_connected[c]) =>
        vs_sent[c] = TurnOutput(vs_agent[c].events, vs_tts[c], 1, 0)

(* every step of a turn is possible whatever the flag is *)
C30_NothingCancelled ==
    \A c \in Conns :
        /\ (vs_pc[c] = "turn" /\ ~ vs_agent[c].failed
              /\ Len(vs_agent[c].events) < MaxChunks) => ENABLED AgentYieldsChunk(c)
        /\ vs_pc[c] = "turn" => ENABLED AgentCompletes(c)
        /\ vs_pc[c] = "tts" =>
              \A outcome \in TtsOutcomes : ENABLED GenerateTts(c, outcome)

(* C30: the interrupt flag never influences a turn's output: the           *)
(* text.chunk, audio.chunk and agent.response messages of a turn are       *)
(* determined by the agent's events and the synthesis outcomes alone, and  *)
(* no step of the turn is disabled, whether the session's flag is true or  *)
(* false when the turn starts or while it runs.                            *)
C30_FlagDoesNotInfluenceTurn == C30_OutputDetermined /\ C30_NothingCancelled

(* a turn ran to its end with text, audio and agent.response while the     *)
(* session's flag was set through another connection of the same session   *)
C30_Witness ==
    \E c, d \in Conns :
        /\ c # d
        /\ TurnOver(c)
        /\ OfType(vs_sent[c], "audio.chunk") # << >>
        /\ Len(OfType(vs_sent[c], "text.chunk")) >= 2
        /\ vs_session_id[d] = vs_session_id[c]
        /\ vs_pc[d] = "ready"
        /\ vs_sent[d] = << SpeechInterrupted(TRUE) >>
        /\ IsInterruptedNow(vs_session_id[c])


(***************************************************************************)
(* Claims about the graph of VoiceAgent                                    *)
(***************************************************************************)
(* the successor the claim gives for a state *)
RouteOf(state) ==
    CASE state.current_intent = "unknown" /\ state.error_count < 3 ->
             "needs_clarification"
      [] state.current_intent \in {"product_search", "product_details"} ->
             "select_tools"
      [] OTHER -> "generate_response"

C26_Routing ==
    /\ (gr_route # NoRoute /\ Len(gr_path) <= 1) => gr_route = RouteOf(gr_state)
    /\ gr_path = << "detect_intent" >> => gr_node = ConditionalEdge(RouteOf(gr_state))
    /\ Len(gr_path) <= 4
    /\ gr_node = "END" =>
          /\ gr_path # << >>
          /\ gr_path[Len(gr_path)] \in {"clarify", "generate_response"}

(* C26: route_after_intent gives every state exactly one successor:        *)
(* needs_clarification for UNKNOWN with error_count < 3, select_tools for  *)
(* PRODUCT_SEARCH and PRODUCT_DETAILS, generate_response otherwise; and    *)
(* every run of the graph from detect_intent reaches END after at most     *)
(* four nodes, through clarify or generate_response.                       *)
C26_RouteThenEnd == [](C26_Routing) /\ <>(gr_node = "END")

(* a run whose intent stayed UNKNOWN with three errors went to             *)
(* generate_response and ended                                             *)
C26_Witness ==
    /\ gr_node = "END"
    /\ gr_state.current_intent = "unknown"
    /\ gr_state.error_count >= 3
    /\ gr_path = << "detect_intent", "generate_response" >>


(***************************************************************************)
(* Claims about the accumulation of tool-call deltas                       *)
(***************************************************************************)
DeltasOf(i) == SelectSeq(ac_deltas, LAMBDA d : d.index = i)
ArgumentsOf(deltas) == Concat([k \in 1..Len(deltas) |-> deltas[k].arguments])

(* C27: tool-call deltas are accumulated into one record per index: once   *)
(* the primary stream has ended there are as many tool calls as distinct   *)
(* indexes seen, and the record of each index has the id and name of that  *)
(* index's first delta and, as arguments, the fragments of that index's    *)
(* deltas concatenated in arrival order.                                   *)
C27_OneRecordPerIndex ==
    ac_ended =>
        /\ Len(ac_tool_calls) = Cardinality(IndexesSeen(ac_deltas))
        /\ \A i \in IndexesSeen(ac_deltas) :
              /\ i + 1 <= Len(ac_tool_calls)
              /\ ac_tool_calls[i + 1].id = DeltasOf(i)[1].id
              /\ ac_tool_calls[i + 1].name = DeltasOf(i)[1].name
              /\ ac_tool_calls[i + 1].arguments = ArgumentsOf(DeltasOf(i))

(***************************************************************************)
(* Claims about the moment a sentence is emitted                           *)
(***************************************************************************)
(* the text holds a sentence that is complete: words, then punctuation     *)
(* and whitespace                                                          *)
HoldsCompleteSentence(text) ==
    \E i \in 2..Len(text) :
        /\ BoundaryLenAt(text, i) > 0
        /\ ~ IsPunct(text[i - 1])
        /\ ~ IsSpace(text[i - 1])

(* C28: OptimizedVoiceAgent emits a sentence on the very delta that        *)
(* completes it: once a delta is handled, the buffer that is kept holds no *)
(* sentence terminated by punctuation and whitespace.                      *)
C28_EmittedOnCompletingDelta ==
    stream_pos > 0 => ~ HoldsCompleteSentence(opt_buffer)

====
